---- MODULE Spec2Model ----
(***************************************************************************)
(* Deterministic YAML (RestrictedYAML): the canonical encoder              *)
(* (lib/deterministic_yaml.py), the structural validator                   *)
(* (dyaml/core/validator.py) and the checksum utility                      *)
(* (dyaml/core/crc32.py), modelled as operators over character sequences   *)
(* and value trees, and driven by a small state machine that applies them. *)
(*                                                                         *)
(* A text is a sequence of one-character strings.  A value is a record     *)
(* [t, n, s, c]: t the Python type, n the number of an int/bool, s the     *)
(* characters of a str, c the children of a list (its items) or of a dict  *)
(* (its entries in insertion order, each an "entry" holding <<key, value>>).*)
(***************************************************************************)
EXTENDS Integers, Sequences, FiniteSets, TLC

(***************************************************************************)
(* Characters                                                              *)
(***************************************************************************)

\* The printable ASCII characters, code points 32..126 in order.  The grave
\* accent (code point 96) cannot be written in a string and is spelled
\* "BACKTICK".
Printable ==
  << " ", "!", "\"", "#", "$", "%", "&", "'", "(", ")", "*", "+", ",", "-", ".", "/",
     "0", "1", "2", "3", "4", "5", "6", "7", "8", "9", ":", ";", "<", "=", ">", "?",
     "@", "A", "B", "C", "D", "E", "F", "G", "H", "I", "J", "K", "L", "M", "N", "O",
     "P", "Q", "R", "S", "T", "U", "V", "W", "X", "Y", "Z", "[", "\\", "]", "^", "_",
     "BACKTICK", "a", "b", "c", "d", "e", "f", "g", "h", "i", "j", "k", "l", "m", "n", "o",
     "p", "q", "r", "s", "t", "u", "v", "w", "x", "y", "z", "{", "|", "}", "~" >>

\* ord(char) for every character of the model.
OrdTable ==
  [ch \in {Printable[i] : i \in 1..95} \cup {"\t", "\n", "\r"} |->
     IF ch = "\t" THEN 9
     ELSE IF ch = "\n" THEN 10
     ELSE IF ch = "\r" THEN 13
     ELSE 31 + (CHOOSE i \in 1..95 : Printable[i] = ch)]

ord(ch) == OrdTable[ch]

\* chr(n) for 32..126.
chr(n) == Printable[n - 31]

IsDigit(ch) == ord(ch) >= 48 /\ ord(ch) <= 57
IsUpper(ch) == ord(ch) >= 65 /\ ord(ch) <= 90
IsLower(ch) == ord(ch) >= 97 /\ ord(ch) <= 122
\* str.isspace() on the characters of the model
isspace(ch) == ch \in {" ", "\t", "\n", "\r"}

\* One-character strings of a sequence: membership and search helpers.
Contains(s, ch) == \E i \in 1..Len(s) : s[i] = ch
ContainsAny(s, set) == \E i \in 1..Len(s) : s[i] \in set

\* s[from..] (1-based, empty when from > Len(s))
Drop(s, k) == SubSeq(s, k + 1, Len(s))
Take(s, k) == SubSeq(s, 1, IF k < Len(s) THEN k ELSE Len(s))

\* text.startswith(p)
startswith(s, p) == Len(s) >= Len(p) /\ SubSeq(s, 1, Len(p)) = p

\* p in text (substring search)
HasSub(s, p) == \E i \in 1..(Len(s) - Len(p) + 1) : SubSeq(s, i, i + Len(p) - 1) = p

\* text.find(ch): 0-based index of the first occurrence, -1 when absent
find(s, ch) ==
  IF Contains(s, ch) THEN (CHOOSE i \in 1..Len(s) : s[i] = ch /\ \A j \in 1..(i-1) : s[j] # ch) - 1
  ELSE -1

\* text.count(ch)
count(s, ch) == Cardinality({i \in 1..Len(s) : s[i] = ch})

RECURSIVE lstrip(_)
lstrip(s) == IF s # <<>> /\ isspace(s[1]) THEN lstrip(Tail(s)) ELSE s

RECURSIVE rstrip(_)
rstrip(s) == IF s # <<>> /\ isspace(s[Len(s)]) THEN rstrip(SubSeq(s, 1, Len(s) - 1)) ELSE s

strip(s) == lstrip(rstrip(s))

RECURSIVE Flatten(_)
Flatten(ss) == IF ss = <<>> THEN <<>> ELSE Head(ss) \o Flatten(Tail(ss))

\* sep.join(parts)
RECURSIVE join(_, _)
join(sep, parts) ==
  IF parts = <<>> THEN <<>>
  ELSE IF Len(parts) = 1 THEN parts[1]
  ELSE parts[1] \o sep \o join(sep, Tail(parts))

\* text.split(sep) for a one-character separator
RECURSIVE SplitFrom(_, _, _)
SplitFrom(s, sep, cur) ==
  IF s = <<>> THEN <<cur>>
  ELSE IF s[1] = sep THEN <<cur>> \o SplitFrom(Tail(s), sep, <<>>)
  ELSE SplitFrom(Tail(s), sep, Append(cur, s[1]))

split(s, sep) == SplitFrom(s, sep, <<>>)

\* Python str < str: lexicographic by code point
RECURSIVE StrLT(_, _)
StrLT(a, b) ==
  IF b = <<>> THEN FALSE
  ELSE IF a = <<>> THEN TRUE
  ELSE IF a[1] = b[1] THEN StrLT(Tail(a), Tail(b))
  ELSE ord(a[1]) < ord(b[1])

(***************************************************************************)
(* Values                                                                  *)
(***************************************************************************)

VNull == [t |-> "null", n |-> 0, s |-> <<>>, c |-> <<>>]
VBool(b) == [t |-> "bool", n |-> IF b THEN 1 ELSE 0, s |-> <<>>, c |-> <<>>]
VInt(i) == [t |-> "int", n |-> i, s |-> <<>>, c |-> <<>>]
VStr(x) == [t |-> "str", n |-> 0, s |-> x, c |-> <<>>]
\* a float, held as its str()
VFloat(repr) == [t |-> "float", n |-> 0, s |-> repr, c |-> <<>>]
VList(items) == [t |-> "list", n |-> 0, s |-> <<>>, c |-> items]
Entry(k, v) == [t |-> "entry", n |-> 0, s |-> <<>>, c |-> <<k, v>>]
VDict(entries) == [t |-> "dict", n |-> 0, s |-> <<>>, c |-> entries]

KeyOf(e) == e.c[1]
ValOf(e) == e.c[2]
\* list(d.keys())
keys(d) == [i \in 1..Len(d.c) |-> KeyOf(d.c[i])]

\* The reserved annotation key.
HUMAN == <<"$", "h", "u", "m", "a", "n", "$">>

\* str(int)
RECURSIVE NatToStr(_)
NatToStr(i) == IF i < 10 THEN <<chr(48 + i)>> ELSE NatToStr(i \div 10) \o <<chr(48 + (i % 10))>>

IntToStr(i) == IF i < 0 THEN <<"-">> \o NatToStr(-i) ELSE NatToStr(i)

\* str(key) of a mapping key
str(k) ==
  IF k.t = "str" THEN k.s
  ELSE IF k.t = "int" THEN IntToStr(k.n)
  ELSE IF k.t = "float" THEN k.s
  ELSE IF k.t = "bool" THEN (IF k.n = 1 THEN <<"T", "r", "u", "e">> ELSE <<"F", "a", "l", "s", "e">>)
  ELSE <<"N", "o", "n", "e">>

(***************************************************************************)
(* Canonical encoder (lib/deterministic_yaml.py)                           *)
(***************************************************************************)

YAML_INDICATORS ==
  {":", " ", "#", "|", ">", "-", "{", "}", "[", "]", "&", "*", "!", "%", "@", "BACKTICK"}

YAML_START_INDICATORS ==
  {"-", " ", "?", ":", "[", "]", "{", "}", "!", "*", "&", "#", "|", ">", "'", "\"", "%", "@"}

AllDigits(s) == s # <<>> /\ \A i \in 1..Len(s) : IsDigit(s[i])

\* A trailing "$" of a Python pattern matches at the very end of the text and
\* also just before a final line feed.
DollarEnds(s) ==
  {s} \cup (IF s # <<>> /\ s[Len(s)] = "\n" THEN {SubSeq(s, 1, Len(s) - 1)} ELSE {})

\* an optional leading "-" removed
Unsigned(s) == IF s # <<>> /\ s[1] = "-" THEN Tail(s) ELSE s

\* re.compile(r'^-?[0-9]+$')
INTEGER_PATTERN(s) == \E e \in DollarEnds(s) : AllDigits(Unsigned(e))

\* re.compile(r'^-?[0-9]+\.[0-9]+$')
FLOAT_PATTERN(s) ==
  \E e \in DollarEnds(s) :
    LET u == Unsigned(e) IN
    \E i \in 1..Len(u) :
      u[i] = "." /\ AllDigits(SubSeq(u, 1, i - 1)) /\ AllDigits(SubSeq(u, i + 1, Len(u)))

\* re.compile(r'^0[0-9]')
LEADING_ZERO_PATTERN(s) == Len(s) >= 2 /\ s[1] = "0" /\ IsDigit(s[2])

\* re.compile(r'^\d{4}-\d{2}-\d{2}')
TIMESTAMP_PATTERN(s) ==
  /\ Len(s) >= 10
  /\ AllDigits(SubSeq(s, 1, 4)) /\ s[5] = "-"
  /\ AllDigits(SubSeq(s, 6, 7)) /\ s[8] = "-"
  /\ AllDigits(SubSeq(s, 9, 10))

\* re.match(r'^0[oOxX]', value)
OctHexPrefix(s) == Len(s) >= 2 /\ s[1] = "0" /\ s[2] \in {"o", "O", "x", "X"}

\* re.match(r'^\.\d', value)
DotDigitPrefix(s) == Len(s) >= 2 /\ s[1] = "." /\ IsDigit(s[2])

\* \d+\.?\d*
Mantissa(m) ==
  \/ AllDigits(m)
  \/ \E i \in 2..Len(m) :
       m[i] = "." /\ AllDigits(SubSeq(m, 1, i - 1))
       /\ \A j \in (i + 1)..Len(m) : IsDigit(m[j])

\* re.match(r'^-?\d+\.?\d*[eE][+-]?\d+$', value)
ExponentPattern(s) ==
  \E e \in DollarEnds(s) :
    LET u == Unsigned(e) IN
    \E i \in 1..Len(u) :
      /\ u[i] \in {"e", "E"}
      /\ Mantissa(SubSeq(u, 1, i - 1))
      /\ LET x == SubSeq(u, i + 1, Len(u)) IN
         AllDigits(IF x # <<>> /\ x[1] \in {"+", "-"} THEN Tail(x) ELSE x)

\* value.replace(old, '') for a one-character old
RECURSIVE Remove(_, _)
Remove(s, ch) ==
  IF s = <<>> THEN <<>>
  ELSE IF s[1] = ch THEN Remove(Tail(s), ch)
  ELSE <<s[1]>> \o Remove(Tail(s), ch)

special_values ==
  { <<"t","r","u","e">>, <<"f","a","l","s","e">>, <<"n","u","l","l">>,
    <<"y","e","s">>, <<"n","o">>, <<"o","n">>, <<"o","f","f">>,
    <<"Y","e","s">>, <<"N","o">>, <<"O","N">>, <<"O","F","F">>,
    <<"T","r","u","e">>, <<"F","a","l","s","e">>, <<"N","U","L","L">>,
    <<".","n","a","n">>, <<".","i","n","f">>, <<"+",".","i","n","f">>,
    <<"-",".","i","n","f">>, <<"~">> }

\* needs_quotes with the check of the indicator characters left out
needs_quotes_no_indicators(value) ==
  \/ value = <<>>
  \/ (value # <<>> /\ value[1] \in YAML_START_INDICATORS)
  \/ (value # <<>> /\ (isspace(value[1]) \/ isspace(value[Len(value)])))
  \/ Contains(value, "\n") \/ Contains(value, "\r")
  \/ INTEGER_PATTERN(value)
  \/ FLOAT_PATTERN(value)
  \/ LEADING_ZERO_PATTERN(value)
  \/ (Contains(value, "_") /\ INTEGER_PATTERN(Remove(value, "_")))
  \/ (value # <<>> /\ value[1] = "+")
  \/ OctHexPrefix(value)
  \/ TIMESTAMP_PATTERN(value)
  \/ DotDigitPrefix(value)
  \/ value \in special_values
  \/ ((Contains(value, "e") \/ Contains(value, "E")) /\ ExponentPattern(value))

\* DeterministicYAML.needs_quotes
needs_quotes(value) ==
  \/ value = <<>>
  \/ ContainsAny(value, YAML_INDICATORS)
  \/ value[1] \in YAML_START_INDICATORS
  \/ isspace(value[1]) \/ isspace(value[Len(value)])
  \/ Contains(value, "\n") \/ Contains(value, "\r")
  \/ INTEGER_PATTERN(value)
  \/ FLOAT_PATTERN(value)
  \/ LEADING_ZERO_PATTERN(value)
  \/ (Contains(value, "_") /\ INTEGER_PATTERN(Remove(value, "_")))
  \/ value[1] = "+"
  \/ OctHexPrefix(value)
  \/ TIMESTAMP_PATTERN(value)
  \/ DotDigitPrefix(value)
  \/ value \in special_values
  \/ ((Contains(value, "e") \/ Contains(value, "E")) /\ ExponentPattern(value))

\* format(n, '02x')
HexDigits == <<"0","1","2","3","4","5","6","7","8","9","a","b","c","d","e","f">>
Hex02(n) == <<HexDigits[(n \div 16) + 1], HexDigits[(n % 16) + 1]>>

\* the escape of one character
EscapeChar(ch) ==
  IF ch = "\\" THEN <<"\\", "\\">>
  ELSE IF ch = "\"" THEN <<"\\", "\"">>
  ELSE IF ch = "\n" THEN <<"\\", "n">>
  ELSE IF ch = "\t" THEN <<"\\", "t">>
  ELSE IF ord(ch) < 32 THEN <<"\\", "x">> \o Hex02(ord(ch))
  ELSE <<ch>>

\* DeterministicYAML.escape_string
escape_string(value) == Flatten([i \in 1..Len(value) |-> EscapeChar(value[i])])

\* text.rstrip('0')
RECURSIVE rstrip_zeros(_)
rstrip_zeros(s) ==
  IF s # <<>> /\ s[Len(s)] = "0" THEN rstrip_zeros(SubSeq(s, 1, Len(s) - 1)) ELSE s

\* DeterministicYAML.canonicalize_number: an int by str(); a float, which
\* the model holds as its str(), by the rewriting of lines 173-208.
canonicalize_number(value) ==
  IF value.t = "int" THEN IntToStr(value.n)
  ELSE IF value.s = <<"n", "a", "n">> THEN <<"\"", ".", "n", "a", "n", "\"">>
  ELSE IF value.s = <<"i", "n", "f">> THEN <<"\"", ".", "i", "n", "f", "\"">>
  ELSE IF value.s = <<"-", "i", "n", "f">> THEN <<"\"", "-", ".", "i", "n", "f", "\"">>
  ELSE IF Contains(value.s, "e") \/ Contains(value.s, "E") THEN <<"\"">> \o value.s \o <<"\"">>
  ELSE
    LET s1 == IF startswith(value.s, <<".">>) THEN <<"0">> \o value.s ELSE value.s
        s2 == IF Contains(s1, ".") /\ s1[Len(s1)] = "." THEN s1 \o <<"0">>
              ELSE IF ~Contains(s1, ".") THEN s1 \o <<".", "0">>
              ELSE s1
        parts == split(s2, ".")
        decimal_part == IF rstrip_zeros(parts[2]) = <<>> THEN <<"0">> ELSE rstrip_zeros(parts[2])
    IN IF Len(parts) = 2 THEN parts[1] \o <<".">> \o decimal_part ELSE s2

\* The outcome of a Python call that raised TypeError (it is no text: its one
\* element is not a character).
TypeError == <<"TypeError">>
Raised(x) == x = TypeError

\* The classes of keys that "<" compares without raising: numbers with
\* numbers (a bool is an int) and str with str.  None compares with nothing.
KeyGroup(k) == IF k.t \in {"int", "bool"} THEN "num" ELSE k.t

\* sorted() of these keys raises TypeError
Unorderable(ks) ==
  \E i, j \in 1..Len(ks) : i # j /\ (KeyGroup(ks[i]) # KeyGroup(ks[j]) \/ ks[i].t = "null")

\* key a < key b
KeyLT(a, b) == IF a.t = "str" THEN StrLT(a.s, b.s) ELSE a.n < b.n

RECURSIVE InsertSorted(_, _)
InsertSorted(sorted, e) ==
  IF sorted = <<>> THEN <<e>>
  ELSE IF KeyLT(KeyOf(e), KeyOf(sorted[1])) THEN <<e>> \o sorted
  ELSE <<sorted[1]>> \o InsertSorted(Tail(sorted), e)

RECURSIVE SortFrom(_, _)
SortFrom(entries, acc) ==
  IF entries = <<>> THEN acc ELSE SortFrom(Tail(entries), InsertSorted(acc, entries[1]))

\* Entries in the order of insertion: what a missing sort would emit.
unsorted_items(entries) == entries

\* sorted(data.items()): keys are unique, so the order is that of the keys
sorted_items(entries) == SortFrom(entries, <<>>)

\* re.match(r'^[A-Za-z0-9_]+$', key_str)
IdentChar(ch) == IsDigit(ch) \/ IsUpper(ch) \/ IsLower(ch) \/ ch = "_"
IDENT_PATTERN(s) == \E e \in DollarEnds(s) : e # <<>> /\ \A i \in 1..Len(e) : IdentChar(e[i])

\* the key as emitted (lines 265-269)
key_str(k) ==
  IF IDENT_PATTERN(str(k)) THEN str(k)
  ELSE <<"\"">> \o escape_string(str(k)) \o <<"\"">>

\* '  ' * indent
RECURSIVE indent_str(_)
indent_str(indent) == IF indent = 0 THEN <<>> ELSE <<" ", " ">> \o indent_str(indent - 1)

\* DeterministicYAML.to_deterministic_yaml(data, indent): the text, or
\* TypeError when sorted() raises on the keys of a mapping.
RECURSIVE to_deterministic_yaml(_, _)
to_deterministic_yaml(data, indent) ==
  IF data.t = "null" THEN <<"n", "u", "l", "l">>
  ELSE IF data.t = "bool" THEN
    (IF data.n = 1 THEN <<"t", "r", "u", "e">> ELSE <<"f", "a", "l", "s", "e">>)
  ELSE IF data.t \in {"int", "float"} THEN canonicalize_number(data)
  ELSE IF data.t = "str" THEN
    (IF needs_quotes(data.s) THEN <<"\"">> \o escape_string(data.s) \o <<"\"">> ELSE data.s)
  ELSE IF data.t = "list" THEN
    IF data.c = <<>> THEN <<"[", "]">>
    ELSE
      LET items == [i \in 1..Len(data.c) |-> to_deterministic_yaml(data.c[i], indent + 1)]
          lines == [i \in 1..Len(data.c) |-> indent_str(indent) \o <<"-", " ">> \o items[i]]
      IN IF \E i \in 1..Len(items) : Raised(items[i]) THEN TypeError
         ELSE join(<<"\n">>, lines)
  ELSE \* dict
    IF data.c = <<>> THEN <<"{", "}">>
    ELSE IF Unorderable(keys(data)) THEN TypeError
    ELSE
      LET es == sorted_items(data.c)
          vals == [i \in 1..Len(es) |-> to_deterministic_yaml(ValOf(es[i]), indent + 1)]
          lines == [i \in 1..Len(es) |->
                      IF ValOf(es[i]).t \in {"list", "dict"} /\ ValOf(es[i]).c # <<>>
                      THEN indent_str(indent) \o key_str(KeyOf(es[i])) \o <<":", "\n">> \o vals[i]
                      ELSE indent_str(indent) \o key_str(KeyOf(es[i])) \o <<":", " ">> \o vals[i]]
      IN IF \E i \in 1..Len(vals) : Raised(vals[i]) THEN TypeError
         ELSE join(<<"\n">>, lines)

\* encode: to_deterministic_yaml(data) with the default indent
encode(data) == to_deterministic_yaml(data, 0)

(***************************************************************************)
(* yaml.safe_load (PyYAML, YAML 1.1), as called by the validator and by    *)
(* the compatibility tests, for single-line scalars in block and flow      *)
(* style.  The outcome is [st, v]: st = "ok" with the value v,             *)
(* "YAMLError", "ValueError" (int() of an empty digit string), or          *)
(* "unsupported" for a construct this model does not cover (multi-line     *)
(* scalars, tags, aliases, block scalars, complex keys, timestamps).       *)
(***************************************************************************)

Lower(ch) == IF IsUpper(ch) THEN chr(ord(ch) + 32) ELSE ch
lower(s) == [i \in 1..Len(s) |-> Lower(s[i])]

\* an optional leading "+" or "-" removed
NoSign(s) == IF s # <<>> /\ s[1] \in {"+", "-"} THEN Tail(s) ELSE s

AllIn(s, set) == \A i \in 1..Len(s) : s[i] \in set

Digits07 == {"0","1","2","3","4","5","6","7"}
Digits09 == Digits07 \cup {"8", "9"}
HexChars == Digits09 \cup {"a","b","c","d","e","f","A","B","C","D","E","F"}

\* the implicit resolver's pattern of tag:yaml.org,2002:bool
YamlBool(s) ==
  s \in { <<"y","e","s">>, <<"Y","e","s">>, <<"Y","E","S">>, <<"n","o">>, <<"N","o">>, <<"N","O">>,
          <<"t","r","u","e">>, <<"T","r","u","e">>, <<"T","R","U","E">>,
          <<"f","a","l","s","e">>, <<"F","a","l","s","e">>, <<"F","A","L","S","E">>,
          <<"o","n">>, <<"O","n">>, <<"O","N">>, <<"o","f","f">>, <<"O","f","f">>, <<"O","F","F">> }

\* the implicit resolver's pattern of tag:yaml.org,2002:null
YamlNull(s) == s \in { <<"~">>, <<"n","u","l","l">>, <<"N","u","l","l">>, <<"N","U","L","L">>, <<>> }

\* the alternatives of the pattern of tag:yaml.org,2002:int, on the unsigned text
YamlIntBin(u) == Len(u) >= 3 /\ u[1] = "0" /\ u[2] = "b" /\ AllIn(Drop(u, 2), {"0", "1", "_"})
YamlIntOct(u) == Len(u) >= 2 /\ u[1] = "0" /\ AllIn(Tail(u), Digits07 \cup {"_"})
YamlIntDec(u) == u = <<"0">> \/ (u # <<>> /\ u[1] \in (Digits09 \ {"0"}) /\ AllIn(Tail(u), Digits09 \cup {"_"}))
YamlIntHex(u) == Len(u) >= 3 /\ u[1] = "0" /\ u[2] = "x" /\ AllIn(Drop(u, 2), HexChars \cup {"_"})
\* [1-9][0-9_]*(?::[0-5]?[0-9])+ : sexagesimal
YamlIntSex(u) ==
  /\ u # <<>> /\ u[1] \in (Digits09 \ {"0"}) /\ Contains(u, ":")
  /\ LET parts == split(u, ":") IN
     /\ AllIn(parts[1], Digits09 \cup {"_"})
     /\ \A i \in 2..Len(parts) :
          \/ (Len(parts[i]) = 1 /\ IsDigit(parts[i][1]))
          \/ (Len(parts[i]) = 2 /\ parts[i][1] \in {"0","1","2","3","4","5"} /\ IsDigit(parts[i][2]))

YamlInt(s) ==
  LET u == NoSign(s) IN
  YamlIntBin(u) \/ YamlIntOct(u) \/ YamlIntDec(u) \/ YamlIntHex(u) \/ YamlIntSex(u)

\* [eE][-+][0-9]+, or nothing
YamlExp(x) == x = <<>> \/ (Len(x) >= 3 /\ x[1] \in {"e", "E"} /\ x[2] \in {"+", "-"} /\ AllDigits(Drop(x, 2)))

\* the first position of text (at or after p) whose character is not in set
RECURSIVE SkipSet(_, _, _)
SkipSet(s, p, set) == IF p <= Len(s) /\ s[p] \in set THEN SkipSet(s, p + 1, set) ELSE p

\* [-+]?(?:[0-9][0-9_]*)\.[0-9_]*(?:[eE][-+][0-9]+)?
YamlFloatDec(s) ==
  LET u == NoSign(s)
      d == SkipSet(u, 1, Digits09 \cup {"_"})
  IN /\ u # <<>> /\ IsDigit(u[1]) /\ d <= Len(u) /\ u[d] = "."
     /\ YamlExp(Drop(u, SkipSet(u, d + 1, Digits09 \cup {"_"}) - 1))

\* \.[0-9][0-9_]*(?:[eE][-+][0-9]+)?
YamlFloatDot(s) ==
  /\ Len(s) >= 2 /\ s[1] = "." /\ IsDigit(s[2])
  /\ YamlExp(Drop(s, SkipSet(s, 3, Digits09 \cup {"_"}) - 1))

\* [-+]?\.(?:inf|Inf|INF)
YamlFloatInf(s) == NoSign(s) \in { <<".","i","n","f">>, <<".","I","n","f">>, <<".","I","N","F">> }

\* \.(?:nan|NaN|NAN)
YamlFloatNan(s) == s \in { <<".","n","a","n">>, <<".","N","a","N">>, <<".","N","A","N">> }

\* [-+]?[0-9][0-9_]*(?::[0-5]?[0-9])+\.[0-9_]* : sexagesimal float
YamlFloatSex(s) ==
  LET u == NoSign(s) IN
  /\ u # <<>> /\ IsDigit(u[1]) /\ Contains(u, ":") /\ Contains(u, ".")
  /\ AllIn(u, Digits09 \cup {"_", ":", "."})

\* the pattern of tag:yaml.org,2002:timestamp starts with a date
YamlTimestamp(s) ==
  /\ Len(s) >= 8 /\ AllDigits(SubSeq(s, 1, 4)) /\ s[5] = "-" /\ IsDigit(s[6])
  /\ \E i \in 7..8 : s[i] = "-" /\ AllDigits(SubSeq(s, 6, i - 1)) /\ i < Len(s) /\ IsDigit(s[i + 1])

\* the value of digits in a base (construct_yaml_int: int(value, base))
DigitVal(ch) ==
  IF IsDigit(ch) THEN ord(ch) - 48
  ELSE IF IsLower(ch) THEN ord(ch) - 87
  ELSE ord(ch) - 55

RECURSIVE BaseVal(_, _, _)
BaseVal(ds, base, acc) ==
  IF ds = <<>> THEN acc ELSE BaseVal(Tail(ds), base, acc * base + DigitVal(ds[1]))

\* repr() of the float that a decimal YAML float without exponent denotes:
\* digit separators removed, leading zeros of the integer part and trailing
\* zeros of the fraction removed, one digit kept on each side.
RECURSIVE StripLeadingZeros(_)
StripLeadingZeros(ds) == IF Len(ds) > 1 /\ ds[1] = "0" THEN StripLeadingZeros(Tail(ds)) ELSE ds

RECURSIVE StripTrailingZeros(_)
StripTrailingZeros(ds) ==
  IF Len(ds) > 1 /\ ds[Len(ds)] = "0" THEN StripTrailingZeros(SubSeq(ds, 1, Len(ds) - 1)) ELSE ds

FloatRepr(s) ==
  LET u == Remove(NoSign(s), "_")
      d == find(u, ".") + 1
      ip == StripLeadingZeros(IF d = 1 THEN <<"0">> ELSE SubSeq(u, 1, d - 1))
      fp == StripTrailingZeros(IF d = Len(u) THEN <<"0">> ELSE SubSeq(u, d + 1, Len(u)))
  IN (IF s[1] = "-" THEN <<"-">> ELSE <<>>) \o ip \o <<".">> \o fp

Ok(v) == [st |-> "ok", v |-> v]
YAMLError == [st |-> "YAMLError", v |-> VNull]
ValueError == [st |-> "ValueError", v |-> VNull]
Unsupported == [st |-> "unsupported", v |-> VNull]

\* construct_yaml_int
construct_yaml_int(s) ==
  LET v == Remove(NoSign(s), "_")
      sign == IF s[1] = "-" THEN -1 ELSE 1
  IN IF v = <<"0">> THEN Ok(VInt(0))
     ELSE IF Len(v) >= 2 /\ v[1] = "0" /\ v[2] \in {"b", "x"} THEN
       (IF Len(v) = 2 THEN ValueError
        ELSE Ok(VInt(sign * BaseVal(Drop(v, 2), IF v[2] = "b" THEN 2 ELSE 16, 0))))
     ELSE IF v[1] = "0" THEN Ok(VInt(sign * BaseVal(v, 8, 0)))
     ELSE IF Contains(v, ":") THEN Unsupported
     ELSE Ok(VInt(sign * BaseVal(v, 10, 0)))

\* construct_yaml_float, the float standing for its repr()
construct_yaml_float(s) ==
  IF YamlFloatInf(s) THEN Ok(VFloat(IF s[1] = "-" THEN <<"-","i","n","f">> ELSE <<"i","n","f">>))
  ELSE IF YamlFloatNan(s) THEN Ok(VFloat(<<"n","a","n">>))
  ELSE IF YamlFloatSex(s) \/ Contains(s, "e") \/ Contains(s, "E") THEN Unsupported
  ELSE Ok(VFloat(FloatRepr(s)))

\* Resolver.resolve and SafeConstructor.construct_object of a plain scalar
resolve_plain(s) ==
  IF YamlBool(s) THEN Ok(VBool(lower(s) \in { <<"y","e","s">>, <<"t","r","u","e">>, <<"o","n">> }))
  ELSE IF YamlFloatDec(s) \/ YamlFloatDot(s) \/ YamlFloatInf(s) \/ YamlFloatNan(s) \/ YamlFloatSex(s)
    THEN construct_yaml_float(s)
  ELSE IF YamlInt(s) THEN construct_yaml_int(s)
  ELSE IF s = <<"<", "<">> THEN YAMLError
  ELSE IF YamlNull(s) THEN Ok(VNull)
  ELSE IF YamlTimestamp(s) THEN Unsupported
  ELSE IF s = <<"=">> THEN YAMLError
  ELSE Ok(VStr(s))

\* --- Scanner: the tokens of one line --------------------------------------

\* the character at p is a space or a tab, or the line ends there
AtBlank(line, p) == p > Len(line) \/ line[p] \in {" ", "\t", "\r"}

SkipSpaces(line, p) == SkipSet(line, p, {" "})

FlowIndicators == {",", "[", "]", "{", "}"}

\* Scanner.check_plain: a plain scalar may start at p
check_plain(line, p, flow) ==
  \/ line[p] \notin {" ", "\t", "\r", "-", "?", ":", ",", "[", "]", "{", "}", "#", "&", "*",
                     "!", "|", ">", "'", "\"", "%", "@", "BACKTICK"}
  \/ (~AtBlank(line, p + 1) /\ (line[p] = "-" \/ (~flow /\ line[p] \in {"?", ":"})))

\* Scanner.scan_plain, inner loop: the end of the run of non-space characters
RECURSIVE ChunkEnd(_, _, _)
ChunkEnd(line, p, flow) ==
  IF p > Len(line) THEN p
  ELSE IF line[p] \in {" ", "\t", "\r"} THEN p
  ELSE IF line[p] = ":" /\ (AtBlank(line, p + 1) \/ (flow /\ line[p + 1] \in FlowIndicators)) THEN p
  ELSE IF flow /\ line[p] \in FlowIndicators THEN p
  ELSE ChunkEnd(line, p + 1, flow)

\* Scanner.scan_plain on one line: the position after the scalar that starts
\* at p (p itself when no chunk starts there)
RECURSIVE PlainEnd(_, _, _)
PlainEnd(line, p, flow) ==
  LET q == ChunkEnd(line, p, flow)
      r == SkipSpaces(line, q)
  IN IF q = p THEN p
     ELSE IF r = q \/ r > Len(line) \/ line[r] = "#" THEN q
     ELSE LET e == PlainEnd(line, r, flow) IN IF e = r THEN q ELSE e

HexVal(ch) == DigitVal(ch)

\* Scanner.scan_flow_scalar for a double-quoted scalar on one line; p is the
\* position after the opening quote.  st = "eol" when the line ends first.
RECURSIVE ScanDQ(_, _, _)
ScanDQ(line, p, acc) ==
  IF p > Len(line) THEN [st |-> "eol", s |-> acc, p |-> p]
  ELSE IF line[p] = "\"" THEN [st |-> "ok", s |-> acc, p |-> p + 1]
  ELSE IF line[p] # "\\" THEN ScanDQ(line, p + 1, Append(acc, line[p]))
  ELSE IF p + 1 > Len(line) THEN [st |-> "eol", s |-> acc, p |-> p]
  ELSE LET e == line[p + 1] IN
    IF e \in {"\\", "\"", "/", " "} THEN ScanDQ(line, p + 2, Append(acc, e))
    ELSE IF e = "n" THEN ScanDQ(line, p + 2, Append(acc, "\n"))
    ELSE IF e = "t" THEN ScanDQ(line, p + 2, Append(acc, "\t"))
    ELSE IF e = "r" THEN ScanDQ(line, p + 2, Append(acc, "\r"))
    ELSE IF e = "x" THEN
      IF p + 3 > Len(line) \/ line[p + 2] \notin HexChars \/ line[p + 3] \notin HexChars
      THEN [st |-> "YAMLError", s |-> acc, p |-> p]
      ELSE LET code == 16 * HexVal(line[p + 2]) + HexVal(line[p + 3]) IN
           IF code \in {9, 10, 13} \/ (code >= 32 /\ code <= 126)
           THEN ScanDQ(line, p + 4,
                       Append(acc, IF code = 9 THEN "\t" ELSE IF code = 10 THEN "\n"
                                   ELSE IF code = 13 THEN "\r" ELSE chr(code)))
           ELSE [st |-> "unsupported", s |-> acc, p |-> p]
    ELSE IF e \in {"0", "a", "b", "v", "f", "e", "N", "_", "L", "P", "u", "U", "\t"}
      THEN [st |-> "unsupported", s |-> acc, p |-> p]
    ELSE [st |-> "YAMLError", s |-> acc, p |-> p]

\* the same for a single-quoted scalar
RECURSIVE ScanSQ(_, _, _)
ScanSQ(line, p, acc) ==
  IF p > Len(line) THEN [st |-> "eol", s |-> acc, p |-> p]
  ELSE IF line[p] # "'" THEN ScanSQ(line, p + 1, Append(acc, line[p]))
  ELSE IF p + 1 <= Len(line) /\ line[p + 1] = "'" THEN ScanSQ(line, p + 2, Append(acc, "'"))
  ELSE [st |-> "ok", s |-> acc, p |-> p + 1]

\* Python dict keys: 1 and True are the same key
KeyEq(a, b) == IF KeyGroup(a) = "num" /\ KeyGroup(b) = "num" THEN a.n = b.n ELSE a = b

\* mapping[key] = value
DictSet(entries, k, v) ==
  IF \E i \in 1..Len(entries) : KeyEq(KeyOf(entries[i]), k)
  THEN [i \in 1..Len(entries) |->
          IF KeyEq(KeyOf(entries[i]), k) THEN Entry(KeyOf(entries[i]), v) ELSE entries[i]]
  ELSE Append(entries, Entry(k, v))

FlowRes(st, v, p) == [st |-> st, v |-> v, p |-> p]

\* A flow node on one line (parse_flow_node): st is "ok", "eol" (the line
\* ends inside the collection), "YAMLError" (syntax), or the outcome of the
\* construction of a scalar in it.
RECURSIVE FlowNode(_, _), FlowSeq(_, _, _), FlowMap(_, _, _), FlowMapNext(_, _, _)
FlowNode(line, p) ==
  LET q == SkipSpaces(line, p) IN
  IF q > Len(line) \/ line[q] = "#" THEN FlowRes("eol", VNull, q)
  ELSE IF line[q] = "[" THEN FlowSeq(line, q + 1, <<>>)
  ELSE IF line[q] = "{" THEN FlowMap(line, q + 1, <<>>)
  ELSE IF line[q] = "\"" THEN
    LET n == ScanDQ(line, q + 1, <<>>) IN FlowRes(n.st, VStr(n.s), n.p)
  ELSE IF line[q] = "'" THEN
    LET n == ScanSQ(line, q + 1, <<>>) IN FlowRes(n.st, VStr(n.s), n.p)
  ELSE IF line[q] \in {"&", "*", "!", "?", ":"} THEN FlowRes("unsupported", VNull, q)
  ELSE IF check_plain(line, q, TRUE) THEN
    LET e == PlainEnd(line, q, TRUE)
        r == resolve_plain(SubSeq(line, q, e - 1))
    IN FlowRes(IF r.st = "YAMLError" THEN "ConstructorError" ELSE r.st, r.v, e)
  ELSE FlowRes("YAMLError", VNull, q)

FlowSeq(line, p, acc) ==
  LET q == SkipSpaces(line, p) IN
  IF q > Len(line) \/ line[q] = "#" THEN FlowRes("eol", VNull, q)
  ELSE IF line[q] = "]" THEN FlowRes("ok", VList(acc), q + 1)
  ELSE
    LET n == FlowNode(line, q) IN
    IF n.st # "ok" THEN n
    ELSE
      LET r == SkipSpaces(line, n.p) IN
      IF r > Len(line) \/ line[r] = "#" THEN FlowRes("eol", VNull, r)
      ELSE IF line[r] = "," THEN FlowSeq(line, r + 1, Append(acc, n.v))
      ELSE IF line[r] = "]" THEN FlowRes("ok", VList(Append(acc, n.v)), r + 1)
      ELSE IF line[r] = ":" THEN FlowRes("unsupported", VNull, r)
      ELSE FlowRes("YAMLError", VNull, r)

FlowMap(line, p, acc) ==
  LET q == SkipSpaces(line, p) IN
  IF q > Len(line) \/ line[q] = "#" THEN FlowRes("eol", VNull, q)
  ELSE IF line[q] = "}" THEN FlowRes("ok", VDict(acc), q + 1)
  ELSE
    LET k == FlowNode(line, q) IN
    IF k.st # "ok" THEN k
    ELSE IF k.v.t \in {"list", "dict"} THEN FlowRes("unsupported", VNull, q)
    ELSE
      LET r == SkipSpaces(line, k.p) IN
      IF r > Len(line) \/ line[r] = "#" THEN FlowRes("eol", VNull, r)
      ELSE IF line[r] # ":" THEN FlowMapNext(line, r, DictSet(acc, k.v, VNull))
      ELSE
        LET r2 == SkipSpaces(line, r + 1) IN
        IF r2 > Len(line) \/ line[r2] = "#" THEN FlowRes("eol", VNull, r2)
        ELSE IF line[r2] \in {",", "}"} THEN FlowMapNext(line, r2, DictSet(acc, k.v, VNull))
        ELSE LET v == FlowNode(line, r2) IN
             IF v.st # "ok" THEN v ELSE FlowMapNext(line, v.p, DictSet(acc, k.v, v.v))

\* after an entry of a flow mapping: "," or "}"
FlowMapNext(line, p, acc) ==
  LET r == SkipSpaces(line, p) IN
  IF r > Len(line) \/ line[r] = "#" THEN FlowRes("eol", VNull, r)
  ELSE IF line[r] = "," THEN FlowMap(line, r + 1, acc)
  ELSE IF line[r] = "}" THEN FlowRes("ok", VDict(acc), r + 1)
  ELSE FlowRes("YAMLError", VNull, r)

\* A token: k is "dash" (block entry), "key" (a scalar followed by the value
\* indicator), "val" (a scalar or flow node), "docstart", "docend", "err" (the
\* scanner or parser raises there) or "unsup"; col the column, ln the line,
\* pl whether it is a plain scalar, r the outcome of its construction.
Tok(k, col, ln, pl, r) == [k |-> k, col |-> col, ln |-> ln, pl |-> pl, r |-> r]
ErrTok(ln) == Tok("err", 0, ln, FALSE, Ok(VNull))
UnsupTok(ln) == Tok("unsup", 0, ln, FALSE, Ok(VNull))

AnchorChars == {Printable[i] : i \in 17..26} \cup {Printable[i] : i \in 34..59}
               \cup {Printable[i] : i \in 66..91} \cup {"-", "_"}

\* Scanner.fetch_more_tokens over one line, from position p; last: no token
\* follows on a later line.
RECURSIVE ScanLine(_, _, _, _), KeyOrVal(_, _, _, _, _, _, _)
ScanLine(line, p, ln, last) ==
  LET q == SkipSpaces(line, p)
      col == q - 1
  IN
  IF q > Len(line) THEN <<>>
  ELSE IF line[q] = "#" THEN <<>>
  ELSE IF line[q] = "\t" THEN <<ErrTok(ln)>>
  ELSE IF line[q] = "\r" THEN <<UnsupTok(ln)>>
  ELSE IF col = 0 /\ startswith(line, <<"-", "-", "-">>) /\ AtBlank(line, 4)
    THEN <<Tok("docstart", -1, ln, FALSE, Ok(VNull))>> \o ScanLine(line, 4, ln, last)
  ELSE IF col = 0 /\ startswith(line, <<".", ".", ".">>) /\ AtBlank(line, 4)
    THEN <<Tok("docend", -1, ln, FALSE, Ok(VNull))>> \o ScanLine(line, 4, ln, last)
  ELSE IF line[q] = "-" /\ AtBlank(line, q + 1)
    THEN <<Tok("dash", col, ln, FALSE, Ok(VNull))>> \o ScanLine(line, q + 1, ln, last)
  ELSE IF line[q] \in {"?", ":"} /\ AtBlank(line, q + 1) THEN <<UnsupTok(ln)>>
  ELSE IF line[q] \in {"[", "{"} THEN
    LET n == FlowNode(line, q) IN
    IF n.st = "eol" THEN (IF last THEN <<ErrTok(ln)>> ELSE <<UnsupTok(ln)>>)
    ELSE IF n.st = "YAMLError" THEN <<ErrTok(ln)>>
    ELSE IF n.st = "unsupported" THEN <<UnsupTok(ln)>>
    ELSE LET r == SkipSpaces(line, n.p) IN
         IF r <= Len(line) /\ line[r] = ":" /\ AtBlank(line, r + 1) THEN <<UnsupTok(ln)>>
         ELSE <<Tok("val", col, ln, FALSE, [st |-> n.st, v |-> n.v])>> \o ScanLine(line, n.p, ln, last)
  ELSE IF line[q] \in {"]", "}", ","} THEN <<ErrTok(ln)>>
  ELSE IF line[q] = "&" THEN
    LET e == SkipSet(line, q + 1, AnchorChars) IN
    IF e = q + 1 THEN <<ErrTok(ln)>>
    ELSE IF ~(AtBlank(line, e) \/ line[e] \in {"?", ":", ",", "]", "}", "%", "@", "BACKTICK"})
      THEN <<ErrTok(ln)>>
    ELSE ScanLine(line, e, ln, last)
  ELSE IF line[q] \in {"*", "!", "|", ">"} THEN <<UnsupTok(ln)>>
  ELSE IF line[q] = "%" THEN (IF col = 0 THEN <<UnsupTok(ln)>> ELSE <<ErrTok(ln)>>)
  ELSE IF line[q] \in {"@", "BACKTICK"} THEN <<ErrTok(ln)>>
  ELSE IF line[q] \in {"\"", "'"} THEN
    LET n == IF line[q] = "\"" THEN ScanDQ(line, q + 1, <<>>) ELSE ScanSQ(line, q + 1, <<>>) IN
    IF n.st = "eol" THEN (IF last THEN <<ErrTok(ln)>> ELSE <<UnsupTok(ln)>>)
    ELSE IF n.st = "YAMLError" THEN <<ErrTok(ln)>>
    ELSE IF n.st = "unsupported" THEN <<UnsupTok(ln)>>
    ELSE KeyOrVal(line, n.p, col, ln, FALSE, Ok(VStr(n.s)), last)
  ELSE IF check_plain(line, q, FALSE) THEN
    LET e == PlainEnd(line, q, FALSE)
        r == resolve_plain(SubSeq(line, q, e - 1))
    IN KeyOrVal(line, e, col, ln, TRUE,
                [st |-> IF r.st = "YAMLError" THEN "ConstructorError" ELSE r.st, v |-> r.v], last)
  ELSE <<ErrTok(ln)>>

\* a scalar that ends before position e is a key when the value indicator follows
KeyOrVal(line, e, col, ln, pl, r, last) ==
  LET x == SkipSpaces(line, e) IN
  IF x <= Len(line) /\ line[x] = ":" /\ AtBlank(line, x + 1)
  THEN <<Tok("key", col, ln, pl, r)>> \o ScanLine(line, x + 1, ln, last)
  ELSE <<Tok("val", col, ln, pl, r)>> \o ScanLine(line, e, ln, last)

\* the tokens of a document
ScanDoc(text) ==
  LET lines == split(text, "\n")
      blank(i) == SkipSpaces(lines[i], 1) > Len(lines[i])
  IN Flatten([i \in 1..Len(lines) |->
                ScanLine(lines[i], 1, i, \A j \in (i + 1)..Len(lines) : blank(j))])

\* --- Parser and composer over the tokens ---------------------------------

NodeRes(st, v, i) == [st |-> st, v |-> v, i |-> i]

\* After the node that ends before token i, inside a block collection at
\* column c: a token further to the right is a parser error, unless the node
\* is a plain scalar directly in this collection (direct) and the token is
\* on a later line: then it continues the scalar (multi-line plain scalars
\* are not modelled).
Overhang(toks, i, c, direct) ==
  IF i > Len(toks) \/ toks[i].col <= c THEN "ok"
  ELSE IF direct /\ toks[i - 1].pl /\ toks[i].ln > toks[i - 1].ln THEN "unsupported"
  ELSE "YAMLError"

RECURSIVE ParseNode(_, _), ParseSeq(_, _, _, _), ParseMap(_, _, _, _)

\* parse_block_node at token i
ParseNode(toks, i) ==
  IF toks[i].k = "dash" THEN ParseSeq(toks, i, toks[i].col, <<>>)
  ELSE IF toks[i].k = "key" THEN ParseMap(toks, i, toks[i].col, <<>>)
  ELSE IF toks[i].k = "val" THEN NodeRes("ok", toks[i].r.v, i + 1)
  ELSE NodeRes("ok", VNull, i)

\* parse_block_sequence_entry / parse_indentless_sequence_entry: the entries
\* at column c
ParseSeq(toks, i, c, acc) ==
  IF i > Len(toks) \/ toks[i].k # "dash" \/ toks[i].col # c THEN NodeRes("ok", VList(acc), i)
  ELSE IF i + 1 > Len(toks) \/ (toks[i + 1].ln > toks[i].ln /\ toks[i + 1].col <= c)
    THEN ParseSeq(toks, i + 1, c, Append(acc, VNull))
  ELSE
    LET n == ParseNode(toks, i + 1) IN
    IF n.st # "ok" THEN n
    ELSE IF Overhang(toks, n.i, c, toks[i + 1].k = "val") # "ok"
      THEN NodeRes(Overhang(toks, n.i, c, toks[i + 1].k = "val"), VNull, n.i)
    ELSE ParseSeq(toks, n.i, c, Append(acc, n.v))

\* parse_block_mapping_key / parse_block_mapping_value: the entries at column c
ParseMap(toks, i, c, acc) ==
  IF i > Len(toks) \/ toks[i].col < c THEN NodeRes("ok", VDict(acc), i)
  ELSE IF toks[i].k # "key" \/ toks[i].col # c THEN NodeRes("YAMLError", VNull, i)
  ELSE IF i + 1 > Len(toks) THEN NodeRes("ok", VDict(DictSet(acc, toks[i].r.v, VNull)), i + 1)
  ELSE IF toks[i + 1].ln = toks[i].ln THEN
    \* the value on the line of the key
    IF toks[i + 1].k # "val" THEN NodeRes("YAMLError", VNull, i + 1)
    ELSE IF i + 2 <= Len(toks) /\ toks[i + 2].ln = toks[i].ln THEN NodeRes("YAMLError", VNull, i + 2)
    ELSE IF Overhang(toks, i + 2, c, TRUE) # "ok" THEN NodeRes(Overhang(toks, i + 2, c, TRUE), VNull, i + 2)
    ELSE ParseMap(toks, i + 2, c, DictSet(acc, toks[i].r.v, toks[i + 1].r.v))
  ELSE IF toks[i + 1].col > c \/ (toks[i + 1].k = "dash" /\ toks[i + 1].col = c) THEN
    \* a nested block, or a sequence at the column of the key
    LET n == IF toks[i + 1].col > c THEN ParseNode(toks, i + 1)
             ELSE ParseSeq(toks, i + 1, c, <<>>) IN
    IF n.st # "ok" THEN n
    ELSE IF Overhang(toks, n.i, c, toks[i + 1].k = "val") # "ok"
      THEN NodeRes(Overhang(toks, n.i, c, toks[i + 1].k = "val"), VNull, n.i)
    ELSE ParseMap(toks, n.i, c, DictSet(acc, toks[i].r.v, n.v))
  ELSE ParseMap(toks, i + 1, c, DictSet(acc, toks[i].r.v, VNull))

\* parse_implicit_document_start .. get_single_node over the tokens
ParseDocument(toks) ==
  LET i0 == IF toks # <<>> /\ toks[1].k = "docstart" THEN 2 ELSE 1 IN
  IF i0 > Len(toks) THEN NodeRes("ok", VNull, i0)
  ELSE IF toks[i0].k = "docstart" THEN NodeRes("YAMLError", VNull, i0)
  ELSE IF toks[i0].k = "docend" THEN
    (IF i0 = 2 /\ Len(toks) = 2 THEN NodeRes("ok", VNull, 3) ELSE NodeRes("YAMLError", VNull, i0))
  ELSE
    LET n == ParseNode(toks, i0) IN
    IF n.st # "ok" THEN n
    ELSE IF n.i > Len(toks) THEN n
    ELSE IF toks[n.i].k = "docend" THEN
      (IF n.i = Len(toks) THEN n ELSE NodeRes("YAMLError", VNull, n.i))
    ELSE IF toks[n.i].k = "docstart" THEN NodeRes("YAMLError", VNull, n.i)
    ELSE IF toks[n.i].ln = toks[n.i - 1].ln THEN NodeRes("YAMLError", VNull, n.i)
    ELSE NodeRes(Overhang(toks, n.i, -1, toks[i0].k = "val"), VNull, n.i)

\* SafeConstructor.construct_document over the composed document n: a
\* ConstructorError is a YAMLError, int('', base) is a ValueError (the first
\* failing scalar of the document decides).
construct_document(toks, n) ==
  LET bad == {i \in 1..Len(toks) : toks[i].r.st # "ok"}
      first == CHOOSE i \in bad : \A j \in bad : i <= j
  IN IF n.st # "ok" THEN [st |-> n.st, v |-> VNull]
     ELSE IF bad = {} THEN Ok(n.v)
     ELSE IF toks[first].r.st = "ConstructorError" THEN YAMLError
     ELSE [st |-> toks[first].r.st, v |-> VNull]

\* get_single_data over the tokens of the text: any error of the scanner or
\* of the parser is a YAMLError, and it comes before the construction.
get_single_data(toks) ==
  IF \E i \in 1..Len(toks) : toks[i].k = "unsup" THEN Unsupported
  ELSE IF \E i \in 1..Len(toks) : toks[i].k = "err" THEN YAMLError
  ELSE construct_document(toks, ParseDocument(toks))

\* yaml.safe_load(text)
safe_load(text) == get_single_data(ScanDoc(text))

(***************************************************************************)
(* Checksum utility (dyaml/core/crc32.py)                                  *)
(***************************************************************************)

\* Bitwise exclusive or of two naturals
RECURSIVE Xor(_, _)
Xor(a, b) ==
  IF a = 0 THEN b
  ELSE IF b = 0 THEN a
  ELSE 2 * Xor(a \div 2, b \div 2) + ((a + b) % 2)

\* A 32-bit word is held as its two 16-bit halves <<high, low>>.
\* One bit of the reflected CRC-32 (polynomial 0xEDB88320) of zlib.crc32.
CrcShift(w) ==
  LET hi == w[1] \div 2
      lo == (w[2] \div 2) + (w[1] % 2) * 32768
  IN IF w[2] % 2 = 1 THEN <<Xor(hi, 60856), Xor(lo, 33568)>> ELSE <<hi, lo>>

RECURSIVE CrcBits(_, _)
CrcBits(w, k) == IF k = 0 THEN w ELSE CrcBits(CrcShift(w), k - 1)

\* The CRC of each byte value: the table of the byte-wise algorithm.
CrcTable == [b \in 0..255 |-> CrcBits(<<0, b>>, 8)]

\* crc = table[(crc ^ byte) & 0xff] ^ (crc >> 8)
CrcByte(w, byte) ==
  LET t == CrcTable[Xor(w[2] % 256, byte)] IN
  <<Xor(t[1], w[1] \div 256), Xor(t[2], (w[2] \div 256) + (w[1] % 256) * 256)>>

\* the bytes folded from left to right (the test on the new word makes TLC
\* compute each step before it descends)
RECURSIVE CrcBytes(_, _)
CrcBytes(w, bytes) ==
  IF bytes = <<>> THEN w
  ELSE LET n == CrcByte(w, bytes[1]) IN
       IF n[1] >= 0 THEN CrcBytes(n, Tail(bytes)) ELSE n

\* text.encode('utf-8') for the characters of the model (all ASCII)
utf8(text) == [i \in 1..Len(text) |-> ord(text[i])]

\* zlib.crc32(data) & 0xffffffff
crc32(bytes) ==
  LET w == CrcBytes(<<65535, 65535>>, bytes) IN <<Xor(w[1], 65535), Xor(w[2], 65535)>>

\* the base64 alphabet
B64 ==
  << "A","B","C","D","E","F","G","H","I","J","K","L","M","N","O","P","Q","R","S","T","U","V","W","X","Y","Z",
     "a","b","c","d","e","f","g","h","i","j","k","l","m","n","o","p","q","r","s","t","u","v","w","x","y","z",
     "0","1","2","3","4","5","6","7","8","9","+","/" >>

\* base64.b64encode(crc.to_bytes(4, 'big')).decode('ascii').rstrip('='):
\* 32 bits in groups of 6, the last group padded with zero bits
b64encode4(w) ==
  << B64[(w[1] \div 1024) + 1],
     B64[((w[1] \div 16) % 64) + 1],
     B64[((w[1] % 16) * 4 + (w[2] \div 16384)) + 1],
     B64[((w[2] \div 256) % 64) + 1],
     B64[((w[2] \div 4) % 64) + 1],
     B64[((w[2] % 4) * 16) + 1] >>

\* calculate_crc32
calculate_crc32(text) == b64encode4(crc32(utf8(text)))

MarkerOpen == <<"[", "c", "r", "c", "3", "2", ":">>
MarkerChars == {B64[i] : i \in 1..64} \cup {"="}

\* CRC32_PATTERN.search(value): r'\[crc32:([A-Za-z0-9+/=]+)\]$'.  The start
\* of the match (1-based) and its end, or 0: "[crc32:", one or more marker
\* characters, "]", and then the end of the text or its final line feed.
MarkerMatch(value) ==
  LET ends == {Len(e) : e \in DollarEnds(value)}
      starts == {i \in 1..Len(value) :
                   \E n \in ends :
                     /\ n - i >= 8
                     /\ SubSeq(value, i, i + 6) = MarkerOpen
                     /\ value[n] = "]"
                     /\ AllIn(SubSeq(value, i + 7, n - 1), MarkerChars)}
  IN IF starts = {} THEN [start |-> 0, stop |-> 0]
     ELSE LET i == CHOOSE i \in starts : \A j \in starts : i <= j IN
          [start |-> i,
           stop |-> CHOOSE n \in ends : n - i >= 8 /\ value[n] = "]"
                                    /\ AllIn(SubSeq(value, i + 7, n - 1), MarkerChars)]

NoMarker == <<"None">>

\* extract_crc32: <<marker or NoMarker, content>>
extract_crc32(value) ==
  LET m == MarkerMatch(value) IN
  IF m.start = 0 THEN <<NoMarker, value>>
  ELSE <<SubSeq(value, m.start + 7, m.stop - 1), SubSeq(value, 1, m.start - 1)>>

\* A stamping that appends a marker to the text as it is, which add_crc32
\* does not do: what the replacement of the marker is checked against.
add_crc32_stacking(value) ==
  value \o MarkerOpen \o calculate_crc32(value) \o <<"]">>

\* add_crc32
add_crc32(value) ==
  LET content == extract_crc32(value)[2] IN
  content \o MarkerOpen \o calculate_crc32(content) \o <<"]">>

\* normalize_base64: pad to a multiple of 4
RECURSIVE PadTo4(_)
PadTo4(x) == IF Len(x) % 4 = 0 THEN x ELSE PadTo4(Append(x, "="))

\* validate_crc32: [ok, expected, actual] (the message names both values)
validate_crc32(value) ==
  LET x == extract_crc32(value) IN
  IF x[1] = NoMarker THEN [ok |-> TRUE, expected |-> <<>>, actual |-> <<>>]
  ELSE LET expected == calculate_crc32(x[2]) IN
       [ok |-> PadTo4(expected) = PadTo4(x[1]), expected |-> expected, actual |-> x[1]]

(***************************************************************************)
(* Validator (dyaml/core/validator.py and DeterministicYAML.validate)      *)
(***************************************************************************)

\* ValidationError(line, message): the text a message formats in after
\* "at path " is held apart, in path.
ValidationError(line, message, path) == [line |-> line, message |-> message, path |-> path]

TabsMessage == "Tabs not allowed, use 2 spaces for indentation"
MarkersMessage == "Document markers (---, ...) not allowed"
AnchorsMessage == "Anchors (&) and aliases (*) not allowed"
FlowMessage == "Flow style ({}, []) not allowed, use block style"
\* f"Invalid YAML: {str(e)}": the text of the exception is not modelled
InvalidYamlMessage == "Invalid YAML"

\* validate_string lines 106-120: the 0-based position of the first "#"
\* outside quotes from position j (1-based) on, -1 when there is none
RECURSIVE HashPos(_, _, _, _)
HashPos(line, j, in_quotes, quote_char) ==
  IF j > Len(line) THEN -1
  ELSE IF line[j] \in {"\"", "'"} /\ (j = 1 \/ line[j - 1] # "\\") THEN
    (IF ~in_quotes THEN HashPos(line, j + 1, TRUE, line[j])
     ELSE IF line[j] = quote_char THEN HashPos(line, j + 1, FALSE, "None")
     ELSE HashPos(line, j + 1, in_quotes, quote_char))
  ELSE IF line[j] = "#" /\ ~in_quotes THEN j - 1
  ELSE HashPos(line, j + 1, in_quotes, quote_char)

\* validate_string lines 95-125: the comment errors of line i
CommentErrors(line, i) ==
  IF startswith(strip(line), <<"#">>)
    THEN <<ValidationError(i, "Comments not allowed (use $human$ fields instead)", <<>>)>>
  ELSE IF Contains(line, "#") /\ HashPos(line, 1, FALSE, "None") >= 0
          /\ strip(Drop(line, HashPos(line, 1, FALSE, "None") + 1)) # <<>>
    THEN <<ValidationError(i, "Inline comments not allowed (use $human$ fields instead)", <<>>)>>
  ELSE <<>>

\* text[:pos] of Python, pos >= -1
SliceTo(text, pos) ==
  IF pos >= 0 THEN Take(text, pos)
  ELSE SubSeq(text, 1, Len(text) - 1)

\* _is_inside_quotes
_is_inside_quotes(text, pos) ==
  (count(SliceTo(text, pos), "\"") + count(SliceTo(text, pos), "'")) % 2 = 1

\* list.index / "in" on the keys: Python equality of keys
KeyIndex(ks, k) == CHOOSE i \in 1..Len(ks) : KeyEq(ks[i], k) /\ \A j \in 1..(i - 1) : ~KeyEq(ks[j], k)
KeysEqual(a, b) == Len(a) = Len(b) /\ \A i \in 1..Len(a) : KeyEq(a[i], b[i])

\* [k for k in keys_list if k != '$human$']
RECURSIVE OtherKeys(_)
OtherKeys(ks) ==
  IF ks = <<>> THEN <<>>
  ELSE IF KeyEq(ks[1], VStr(HUMAN)) THEN OtherKeys(Tail(ks))
  ELSE <<ks[1]>> \o OtherKeys(Tail(ks))

\* the outcome of _validate_structure: raised is "" or the exception
StructRes(raised, errors, warnings) == [raised |-> raised, errors |-> errors, warnings |-> warnings]

\* the outcomes of the nested calls, merged in order; the first exception
\* ends the run
RECURSIVE MergeStruct(_, _)
MergeStruct(acc, rs) ==
  IF rs = <<>> \/ acc.raised # "" THEN acc
  ELSE MergeStruct(StructRes(rs[1].raised, acc.errors \o rs[1].errors, acc.warnings \o rs[1].warnings),
                   Tail(rs))

\* _validate_structure(data, yaml_str, path)
RECURSIVE _validate_structure(_, _)
_validate_structure(data, path) ==
  IF data.t = "dict" THEN
    LET keys_list == keys(data)
        where == join(<<".">>, path)
        has_human == \E i \in 1..Len(keys_list) : KeyEq(keys_list[i], VStr(HUMAN))
        human_count == Cardinality({i \in 1..Len(keys_list) : KeyEq(keys_list[i], VStr(HUMAN))})
        e1 == IF human_count > 1
              THEN <<ValidationError(0, "Multiple $human$ fields in object at path (only one allowed)", where)>>
              ELSE <<>>
        w1 == IF has_human /\ KeyIndex(keys_list, VStr(HUMAN)) # 1
              THEN <<ValidationError(0, "$human$ field should be first in object at path", where)>>
              ELSE <<>>
        others == OtherKeys(keys_list)
        sorted_keys == keys(VDict(sorted_items([i \in 1..Len(others) |-> Entry(others[i], VNull)])))
        expected_order == (IF has_human THEN <<VStr(HUMAN)>> ELSE <<>>) \o sorted_keys
        w2 == IF ~KeysEqual(keys_list, expected_order)
              THEN <<ValidationError(0, "Keys not in lexicographic order in object at path", where)>>
              ELSE <<>>
        nested == [i \in 1..Len(data.c) |->
                     _validate_structure(ValOf(data.c[i]), Append(path, str(KeyOf(data.c[i]))))]
    IN IF Unorderable(others) THEN StructRes("TypeError", <<>>, <<>>)
       ELSE MergeStruct(StructRes("", e1, w1 \o w2), nested)
  ELSE IF data.t = "list" THEN
    MergeStruct(StructRes("", <<>>, <<>>),
                [i \in 1..Len(data.c) |-> _validate_structure(data.c[i], Append(path, NatToStr(i - 1)))])
  ELSE StructRes("", <<>>, <<>>)

\* '; '.join(violations)
RECURSIVE JoinViolations(_)
JoinViolations(vs) ==
  IF Len(vs) = 1 THEN vs[1] ELSE vs[1] \o "; " \o JoinViolations(Tail(vs))

\* yaml_str.strip().startswith('---') or '...' in yaml_str
HasDocumentMarkers(yaml_str) ==
  startswith(strip(yaml_str), <<"-", "-", "-">>) \/ HasSub(yaml_str, <<".", ".", ".">>)

\* line.rstrip() != line and line.strip()
TrailingSpaces(line) == rstrip(line) # line /\ strip(line) # <<>>

\* DeterministicYAML.validate lines 311-335: the comment violations of line i
CommentViolations(line, i) ==
  LET hash == find(line, "#")
      before_hash == Take(line, hash)
      after_hash == Drop(line, hash + 1)
  IN IF startswith(strip(line), <<"#">>) THEN <<"Line " \o ToString(i) \o ": Comments not allowed">>
     ELSE IF hash >= 0 /\ (count(before_hash, "\"") + count(before_hash, "'")) % 2 = 0
             /\ strip(after_hash) # <<>> /\ ~startswith(strip(after_hash), <<"\"">>)
       THEN <<"Line " \o ToString(i) \o ": Inline comments not allowed">>
     ELSE <<>>

\* DeterministicYAML.validate lines 298-363 once yaml.safe_load(yaml_str) has
\* ended as loaded: [raised, is_valid, error_msg]; an exception of safe_load
\* that is no YAMLError leaves the function.
validate_loaded(yaml_str, loaded) ==
  LET lines == split(yaml_str, "\n")
      comments == IF Contains(yaml_str, "#")
                  THEN Flatten([i \in 1..Len(lines) |-> CommentViolations(lines[i], i)])
                  ELSE <<>>
      markers == IF HasDocumentMarkers(yaml_str) THEN <<MarkersMessage>> ELSE <<>>
      anchors == IF Contains(yaml_str, "&") \/ Contains(yaml_str, "*") THEN <<AnchorsMessage>> ELSE <<>>
      tabs == IF Contains(yaml_str, "\t") THEN <<TabsMessage>> ELSE <<>>
      trailing == Flatten([i \in 1..Len(lines) |->
                    IF TrailingSpaces(lines[i])
                    THEN <<"Line " \o ToString(i) \o ": Trailing spaces not allowed">> ELSE <<>>])
      violations == comments \o markers \o anchors \o tabs \o trailing
  IN IF loaded.st = "YAMLError" THEN [raised |-> "", is_valid |-> FALSE, error_msg |-> InvalidYamlMessage]
     ELSE IF loaded.st # "ok" THEN [raised |-> loaded.st, is_valid |-> FALSE, error_msg |-> "None"]
     ELSE IF violations # <<>>
       THEN [raised |-> "", is_valid |-> FALSE, error_msg |-> JoinViolations(violations)]
     ELSE [raised |-> "", is_valid |-> TRUE, error_msg |-> "None"]

\* DeterministicYAML.validate(yaml_str)
validate(yaml_str) == validate_loaded(yaml_str, safe_load(yaml_str))

\* ValidationResult(valid, errors, warnings); raised names the exception
\* that left validate_string instead, "" when it returned.
ValidationResult(valid, errors, warnings) ==
  [raised |-> "", valid |-> valid, errors |-> errors, warnings |-> warnings]
RaisedResult(exception) ==
  [raised |-> exception, valid |-> FALSE, errors |-> <<>>, warnings |-> <<>>]

\* validate_string lines 154-168: the errors so far, then those of the
\* structure struct and of DeterministicYAML.validate, whose outcome is dy
finish_validation(errors, struct, dy) ==
  IF struct.raised # "" THEN RaisedResult(struct.raised)
  ELSE IF dy.raised # "" THEN RaisedResult(dy.raised)
  ELSE ValidationResult(
         errors \o struct.errors
           \o (IF ~dy.is_valid THEN <<ValidationError(0, dy.error_msg, <<>>)>> ELSE <<>>) = <<>>,
         errors \o struct.errors
           \o (IF ~dy.is_valid THEN <<ValidationError(0, dy.error_msg, <<>>)>> ELSE <<>>),
         struct.warnings)

\* validate_string lines 84-168 once yaml.safe_load(yaml_str) has ended as
\* loaded.  safe_load is a function of the text, so its second call on the
\* same text, in DeterministicYAML.validate, ends as the first.
validate_string_loaded(yaml_str, loaded) ==
  LET lines == split(yaml_str, "\n")
      tabs == Flatten([i \in 1..Len(lines) |->
                IF Contains(lines[i], "\t") THEN <<ValidationError(i, TabsMessage, <<>>)>> ELSE <<>>])
      comments == Flatten([i \in 1..Len(lines) |-> CommentErrors(lines[i], i)])
      markers == IF HasDocumentMarkers(yaml_str) THEN <<ValidationError(0, MarkersMessage, <<>>)>> ELSE <<>>
      anchors == IF Contains(yaml_str, "&") \/ Contains(yaml_str, "*")
                 THEN <<ValidationError(0, AnchorsMessage, <<>>)>> ELSE <<>>
      \* 'tab' occurs in no message but that of the tabs
      parse == ~Contains(yaml_str, "\t")
      invalid == IF parse /\ loaded.st = "YAMLError"
                 THEN <<ValidationError(0, InvalidYamlMessage, <<>>)>> ELSE <<>>
      trailing == Flatten([i \in 1..Len(lines) |->
                    IF TrailingSpaces(lines[i])
                    THEN <<ValidationError(i, "Trailing spaces not allowed", <<>>)>> ELSE <<>>])
      flow == IF (Contains(yaml_str, "{") \/ Contains(yaml_str, "["))
                 /\ ~_is_inside_quotes(yaml_str, find(yaml_str, "{"))
              THEN <<ValidationError(0, FlowMessage, <<>>)>> ELSE <<>>
      \* data is not None
      has_data == parse /\ loaded.st = "ok" /\ loaded.v.t # "null"
  IN IF parse /\ loaded.st \notin {"ok", "YAMLError"} THEN RaisedResult(loaded.st)
     ELSE finish_validation(tabs \o comments \o markers \o anchors \o invalid \o trailing \o flow,
                            IF has_data THEN _validate_structure(loaded.v, <<>>)
                            ELSE StructRes("", <<>>, <<>>),
                            validate_loaded(yaml_str, loaded))

\* validate_string(yaml_str)
validate_string(yaml_str) == validate_string_loaded(yaml_str, safe_load(yaml_str))

(***************************************************************************)
(* Annotation synthesizer (dyaml/core/converter.py)                        *)
(***************************************************************************)

\* None, where a text may stand
None == <<"None">>

\* CommentInfo(text, comment_type, line_number, key_path, associated_key)
CommentInfo(text, comment_type, line_number, key_path, associated_key) ==
  [text |-> text, comment_type |-> comment_type, line_number |-> line_number,
   key_path |-> key_path, associated_key |-> associated_key]

\* bool(value): the truth value of a Python value
Truthy(v) ==
  IF v.t \in {"int", "bool"} THEN v.n # 0
  ELSE IF v.t = "str" THEN v.s # <<>>
  ELSE IF v.t \in {"list", "dict"} THEN v.c # <<>>
  ELSE v.t # "null"

\* comment.text.replace('|', '\\|')
RECURSIVE EscapePipes(_)
EscapePipes(text) ==
  IF text = <<>> THEN <<>>
  ELSE (IF text[1] = "|" THEN <<"\\", "|">> ELSE <<text[1]>>) \o EscapePipes(Tail(text))

\* consolidate_comments lines 49-53: the comment belongs to the path.  The
\* conditional expression takes the whole conjunction as its first branch:
\* (... and ... and ... == key_path[-1]) if key_path else None
BelongsTo(comment, key_path) ==
  \/ comment.key_path = key_path
  \/ IF key_path # <<>>
     THEN /\ Len(comment.key_path) = Len(key_path) + 1
          /\ Take(comment.key_path, Len(comment.key_path) - 1) = key_path
          /\ comment.associated_key = key_path[Len(key_path)]
     ELSE FALSE

\* consolidate_comments lines 62-70: the part a comment gives
CommentPart(comment) ==
  IF comment.associated_key # None /\ comment.associated_key # <<>>
  THEN comment.associated_key \o <<":", " ">> \o EscapePipes(comment.text)
  ELSE EscapePipes(comment.text)

\* consolidate_comments(comments, key_path): a text, or None
consolidate_comments(comments, key_path) ==
  LET Relevant(c) == BelongsTo(c, key_path)
      relevant_comments == SelectSeq(comments, Relevant)
  IN IF relevant_comments = <<>> THEN None
     ELSE join(<<" ", "|", " ">>,
               [i \in 1..Len(relevant_comments) |-> CommentPart(relevant_comments[i])])

\* A merge that overwrites the existing text, which add_human_fields does not
\* do: what the merge rule is checked against.
MergeHumanOverwrite(existing_human, human_value) ==
  IF human_value # None /\ human_value # <<>> THEN VStr(human_value) ELSE existing_human

\* add_human_fields lines 102-107: the field of a mapping that has one
\* already; human_value is the consolidated text or None
MergeHuman(existing_human, human_value) ==
  IF human_value # None /\ human_value # <<>>
  THEN (IF Truthy(existing_human)
        THEN VStr(str(existing_human) \o <<" ", "|", " ">> \o human_value)
        ELSE VStr(human_value))
  ELSE existing_human

RECURSIVE add_human_fields(_, _, _)
RECURSIVE HumanLoop(_, _, _, _, _)

\* add_human_fields lines 99-111: the loop over data.items()
HumanLoop(entries, comments, path, human_value, result) ==
  IF entries = <<>> THEN result
  ELSE HumanLoop(Tail(entries), comments, path, human_value,
                 IF KeyOf(entries[1]) = VStr(HUMAN)
                 THEN DictSet(result, VStr(HUMAN), MergeHuman(ValOf(entries[1]), human_value))
                 ELSE DictSet(result, KeyOf(entries[1]),
                              add_human_fields(ValOf(entries[1]), comments,
                                               Append(path, str(KeyOf(entries[1]))))))

\* add_human_fields lines 91-96 and 113: the mapping at path, human_value
\* being what its comments consolidate to
HumanDict(data, comments, path, human_value) ==
  VDict(HumanLoop(data.c, comments, path, human_value,
                  IF human_value # None /\ human_value # <<>>
                  THEN <<Entry(VStr(HUMAN), VStr(human_value))>> ELSE <<>>))

\* add_human_fields(data, comments, path)
add_human_fields(data, comments, path) ==
  IF data.t = "dict" THEN HumanDict(data, comments, path, consolidate_comments(comments, path))
  ELSE IF data.t = "list" THEN
    VList([i \in 1..Len(data.c) |->
             add_human_fields(data.c[i], comments, Append(path, NatToStr(i - 1)))])
  ELSE data

\* A stamping that marks every text under a key, annotation or not, which
\* add_crc32_to_human_fields does not do: what the duality of strip and
\* preserve is checked against.
RECURSIVE stamp_all_text_fields(_)
stamp_all_text_fields(data) ==
  IF data.t = "dict" THEN
    VDict([i \in 1..Len(data.c) |->
             IF ValOf(data.c[i]).t = "str"
             THEN Entry(KeyOf(data.c[i]), VStr(add_crc32(ValOf(data.c[i]).s)))
             ELSE Entry(KeyOf(data.c[i]), stamp_all_text_fields(ValOf(data.c[i])))])
  ELSE IF data.t = "list" THEN
    VList([i \in 1..Len(data.c) |-> stamp_all_text_fields(data.c[i])])
  ELSE data

\* add_crc32_to_human_fields(data)
RECURSIVE add_crc32_to_human_fields(_)
add_crc32_to_human_fields(data) ==
  IF data.t = "dict" THEN
    VDict([i \in 1..Len(data.c) |->
             IF KeyOf(data.c[i]) = VStr(HUMAN) /\ ValOf(data.c[i]).t = "str"
             THEN Entry(KeyOf(data.c[i]), VStr(add_crc32(ValOf(data.c[i]).s)))
             ELSE Entry(KeyOf(data.c[i]), add_crc32_to_human_fields(ValOf(data.c[i])))])
  ELSE IF data.t = "list" THEN
    VList([i \in 1..Len(data.c) |-> add_crc32_to_human_fields(data.c[i])])
  ELSE data

\* A strip that removes the annotation of the top mapping only, which
\* strip_human_fields does not stop at: what the strip rule is checked against.
strip_top_level(data) ==
  LET Kept(e) == KeyOf(e) # VStr(HUMAN) IN
  IF data.t = "dict" THEN VDict(SelectSeq(data.c, Kept)) ELSE data

\* strip_human_fields lines 205-207: the loop over data.items()
RECURSIVE strip_human_fields(_)
RECURSIVE StripLoop(_)
StripLoop(entries) ==
  IF entries = <<>> THEN <<>>
  ELSE (IF KeyOf(entries[1]) # VStr(HUMAN)
        THEN <<Entry(KeyOf(entries[1]), strip_human_fields(ValOf(entries[1])))>>
        ELSE <<>>) \o StripLoop(Tail(entries))

\* strip_human_fields(data)
strip_human_fields(data) ==
  IF data.t = "dict" THEN VDict(StripLoop(data.c))
  ELSE IF data.t = "list" THEN VList([i \in 1..Len(data.c) |-> strip_human_fields(data.c[i])])
  ELSE data

\* convert_yaml_to_deterministic(data, comments, preserve_comments,
\* add_crc32_checksums)
convert_yaml_to_deterministic(data, comments, preserve_comments, add_crc32_checksums) ==
  IF preserve_comments
  THEN (IF add_crc32_checksums
        THEN add_crc32_to_human_fields(add_human_fields(data, comments, <<>>))
        ELSE add_human_fields(data, comments, <<>>))
  ELSE strip_human_fields(data)

(***************************************************************************)
(* Schema encoding layer (dyaml/core/schema.py)                            *)
(***************************************************************************)

PROPERTIES == <<"p", "r", "o", "p", "e", "r", "t", "i", "e", "s">>
ITEMS == <<"i", "t", "e", "m", "s">>
X_ENCODING == <<"x", "-", "e", "n", "c", "o", "d", "i", "n", "g">>
LOWERCASE == <<"l", "o", "w", "e", "r", "c", "a", "s", "e">>
UPPERCASE == <<"u", "p", "p", "e", "r", "c", "a", "s", "e">>
CRC32 == <<"c", "r", "c", "3", "2">>
PARITY == <<"p", "a", "r", "i", "t", "y">>
ParityOpen == <<"[", "p", "a", "r", "i", "t", "y", ":">>

\* key in d, and d[key], for a dict with text keys
HasKey(d, k) == d.t = "dict" /\ \E i \in 1..Len(d.c) : KeyOf(d.c[i]) = VStr(k)
Get(d, k) == ValOf(d.c[CHOOSE i \in 1..Len(d.c) : KeyOf(d.c[i]) = VStr(k)])

\* instruction.get(name, False), taken as a condition
Flag(instruction, name) == HasKey(instruction, name) /\ Truthy(Get(instruction, name))

Upper(ch) == IF IsLower(ch) THEN chr(ord(ch) - 32) ELSE ch
upper(s) == [i \in 1..Len(s) |-> Upper(s[i])]

\* bin(b).count('1')
RECURSIVE BitCount(_)
BitCount(b) == IF b = 0 THEN 0 ELSE (b % 2) + BitCount(b \div 2)

RECURSIVE SumBits(_)
SumBits(bytes) == IF bytes = <<>> THEN 0 ELSE BitCount(bytes[1]) + SumBits(Tail(bytes))

\* _calculate_parity
_calculate_parity(value) == SumBits(utf8(value)) % 2

\* _apply_encoding_instruction(value, instruction, path)
_apply_encoding_instruction(value, instruction, path) ==
  IF value.t # "str" THEN value
  ELSE LET content == extract_crc32(value.s)[2]
           cased == IF Flag(instruction, LOWERCASE) THEN lower(content)
                    ELSE IF Flag(instruction, UPPERCASE) THEN upper(content)
                    ELSE content
           summed == IF Flag(instruction, CRC32) THEN add_crc32(cased) ELSE cased
       IN VStr(IF Flag(instruction, PARITY)
               THEN summed \o ParityOpen \o NatToStr(_calculate_parity(summed)) \o <<"]">>
               ELSE summed)

\* _get_encoding_instructions lines 192-211: the walk from current along
\* the rest of the path; VNull stands for None
RECURSIVE EncodingFrom(_, _)
EncodingFrom(current, path) ==
  IF path = <<>>
  THEN (IF HasKey(current, X_ENCODING) THEN Get(current, X_ENCODING) ELSE VNull)
  ELSE IF HasKey(current, PROPERTIES)
  THEN (IF HasKey(Get(current, PROPERTIES), path[1])
        THEN EncodingFrom(Get(Get(current, PROPERTIES), path[1]), Tail(path))
        ELSE VNull)
  ELSE IF HasKey(current, ITEMS)
  THEN (IF HasKey(Get(current, ITEMS), PROPERTIES)
           /\ HasKey(Get(Get(current, ITEMS), PROPERTIES), path[1])
        THEN EncodingFrom(Get(Get(Get(current, ITEMS), PROPERTIES), path[1]), Tail(path))
        ELSE VNull)
  ELSE VNull

\* _get_encoding_instructions(schema, path)
_get_encoding_instructions(schema, path) == EncodingFrom(schema, path)

\* apply_encoding_instructions(data, schema, path)
RECURSIVE apply_encoding_instructions(_, _, _)
apply_encoding_instructions(data, schema, path) ==
  IF data.t = "dict" THEN
    VDict([i \in 1..Len(data.c) |->
             Entry(KeyOf(data.c[i]),
                   apply_encoding_instructions(ValOf(data.c[i]), schema,
                                               Append(path, str(KeyOf(data.c[i])))))])
  ELSE IF data.t = "list" THEN
    VList([i \in 1..Len(data.c) |->
             apply_encoding_instructions(data.c[i], schema, Append(path, NatToStr(i - 1)))])
  ELSE IF Truthy(_get_encoding_instructions(schema, path))
  THEN _apply_encoding_instruction(data, _get_encoding_instructions(schema, path), path)
  ELSE data

\* int(text): surrounding whitespace stripped, an optional sign, decimal
\* digits with single underscores between them; ValueError otherwise
PyIntDigits(ds) ==
  /\ ds # <<>>
  /\ \A i \in 1..Len(ds) : IsDigit(ds[i]) \/ ds[i] = "_"
  /\ ds[1] # "_" /\ ds[Len(ds)] # "_"
  /\ \A i \in 1..(Len(ds) - 1) : ~(ds[i] = "_" /\ ds[i + 1] = "_")
PyInt(x) ==
  LET body == strip(x)
      signed == body # <<>> /\ body[1] \in {"+", "-"}
      ds == IF signed THEN Tail(body) ELSE body
  IN IF PyIntDigits(ds)
     THEN [ok |-> TRUE,
           n |-> IF signed /\ body[1] = "-" THEN 0 - BaseVal(Remove(ds, "_"), 10, 0)
                 ELSE BaseVal(Remove(ds, "_"), 10, 0)]
     ELSE [ok |-> FALSE, n |-> 0]

\* The start of the first occurrence, which is not where
\* validate_encoding_instructions looks for the suffix: what the agreement of
\* apply and check is checked against.
find_first(x, sub) ==
  LET at == {i \in 1..(Len(x) - Len(sub) + 1) : SubSeq(x, i, i + Len(sub) - 1) = sub} IN
  IF at = {} THEN 0 ELSE CHOOSE i \in at : \A j \in at : i <= j

\* data.rfind(sub): 1-based start of the last occurrence, 0 when absent
rfind(x, sub) ==
  LET at == {i \in 1..(Len(x) - Len(sub) + 1) : SubSeq(x, i, i + Len(sub) - 1) = sub} IN
  IF at = {} THEN 0 ELSE CHOOSE i \in at : \A j \in at : j <= i

\* _validate_parity
_validate_parity(value, expected_parity) == _calculate_parity(value) = expected_parity

\* A list that is kept from call to call, which validate_encoding_instructions
\* does not have: what the freshness of the diagnostics is checked against.
SharedErrors(earlier) == earlier

\* lines 274-275: "if errors is None: errors = []" -- the list a call of
\* validate_encoding_instructions starts from, earlier being what the call
\* before it returned
FreshErrors(earlier) == <<>>

\* path_str = '.'.join(path) if path else 'root'
path_str(path) == IF path = <<>> THEN <<"r", "o", "o", "t">> ELSE join(<<".">>, path)

\* One diagnostic: f"{path_str}: {message}", and for a checksum the two
\* values its message names
Diagnostic(path, message, expected, actual) ==
  [path |-> path_str(path), message |-> message, expected |-> expected, actual |-> actual]

\* validate_encoding_instructions lines 294-298: the checksum of a leaf
LeafChecksumErrors(data, path) ==
  IF validate_crc32(data).ok THEN <<>>
  ELSE <<Diagnostic(path, "CRC32 validation failed",
                    validate_crc32(data).expected, validate_crc32(data).actual)>>

\* validate_encoding_instructions lines 301-323: the parity of a leaf
LeafParityErrors(data, path) ==
  IF HasSub(data, ParityOpen) THEN
    LET parity_start == rfind(data, ParityOpen)
        parity_str == split(Drop(data, parity_start + 7), "]")[1]
        content == Take(data, parity_start - 1)
    IN IF ~PyInt(parity_str).ok
       THEN <<Diagnostic(path, "Invalid parity format", <<>>, <<>>)>>
       ELSE IF ~_validate_parity(content, PyInt(parity_str).n)
       THEN <<Diagnostic(path, "Parity check failed", <<>>, <<>>)>>
       ELSE <<>>
  ELSE <<Diagnostic(path, "Missing parity check", <<>>, <<>>)>>

\* validate_encoding_instructions lines 290-323: a scalar
LeafErrors(data, encoding, path) ==
  IF Truthy(encoding) /\ data.t = "str"
  THEN (IF Flag(encoding, CRC32) THEN LeafChecksumErrors(data.s, path) ELSE <<>>)
       \o (IF Flag(encoding, PARITY) THEN LeafParityErrors(data.s, path) ELSE <<>>)
  ELSE <<>>

\* validate_encoding_instructions(data, schema, path, errors): the list
\* errors with the diagnostics of data appended
RECURSIVE validate_encoding_instructions(_, _, _, _)
RECURSIVE ValidateItems(_, _, _, _, _)
ValidateItems(items, i, schema, path, errors) ==
  IF i > Len(items) THEN errors
  ELSE ValidateItems(items, i + 1, schema, path,
         IF items[i].t = "entry"
         THEN validate_encoding_instructions(ValOf(items[i]), schema,
                                             Append(path, str(KeyOf(items[i]))), errors)
         ELSE validate_encoding_instructions(items[i], schema,
                                             Append(path, NatToStr(i - 1)), errors))

validate_encoding_instructions(data, schema, path, errors) ==
  IF data.t \in {"dict", "list"} THEN ValidateItems(data.c, 1, schema, path, errors)
  ELSE errors \o LeafErrors(data, _get_encoding_instructions(schema, path), path)

(***************************************************************************)
(* The inputs of the runs                                                  *)
(***************************************************************************)

\* Bounds: the length of the generated texts, the nodes of a generated
\* value tree, the lines of a generated document.
MaxLen == 2
MaxNodes == 4
MaxLines == 2

\* The characters the generated texts are made of.
Alphabet == {"a", "e", "1", "0", " ", ":", "#", "-", ".", "_", "\"", "'", "<", "&", "[", "+", "\n"}

RECURSIVE StringsUpTo(_)
StringsUpTo(n) ==
  IF n = 0 THEN {<<>>}
  ELSE StringsUpTo(n - 1) \cup {Append(t, c) : t \in StringsUpTo(n - 1), c \in Alphabet}

\* Texts of the specification's and the tests' examples.
SampleTexts ==
  { <<>>, <<"4", "2">>, <<"t", "r", "u", "e">>,
    <<"h", "e", "l", "l", "o", "_", "w", "o", "r", "l", "d">>, <<"h", "e", "l", "l", "o", "-", "w", "o", "r", "l", "d">>, <<"h", "e", "l", "l", "o", ":", "w", "o", "r", "l", "d">>,
    <<"T", "R", "U", "E">>, <<"N", "u", "l", "l">>, <<".", ".", ".">>,
    <<"h", "e", "l", "l", "o", " ", "w", "o", "r", "l", "d">>, <<"3", ".", "1", "4">>, <<"0", "0", "7">>,
    <<"0", "x", "1", "F">>, <<"1", "e", "5">>, <<"~">>,
    <<"a", "#", "b">>, <<"x", " ", "&", " ", "y">>, <<"*", "a">>,
    <<"{", "a", "}">>, <<"a", "\t", "b">> }

Texts == StringsUpTo(MaxLen) \cup SampleTexts

Scalars ==
  {VNull, VBool(TRUE), VBool(FALSE), VInt(0), VInt(42), VInt(-7)} \cup {VStr(t) : t \in Texts}

\* The leaves and the keys of the generated trees.
Atoms == {VInt(1), VStr(<<"x">>)}
KeyPool == {<<"a">>, HUMAN, <<"!", "a">>}

\* the value trees of exactly n nodes: a list or a mapping counts one node
\* and holds the rest; the keys of a mapping are distinct
RECURSIVE Sized(_), ItemSeqs(_), EntrySeqs(_, _)
Sized(n) ==
  IF n = 1 THEN Atoms \cup {VList(<<>>), VDict(<<>>)}
  ELSE {VList(c) : c \in ItemSeqs(n - 1)} \cup {VDict(c) : c \in EntrySeqs(n - 1, KeyPool)}

ItemSeqs(m) ==
  IF m = 0 THEN {<<>>}
  ELSE UNION {{<<v>> \o rest : v \in Sized(k), rest \in ItemSeqs(m - k)} : k \in 1..m}

EntrySeqs(m, ks) ==
  IF m = 0 THEN {<<>>}
  ELSE UNION {UNION {{<<Entry(VStr(key), v)>> \o rest :
                        v \in Sized(k), rest \in EntrySeqs(m - k, ks \ {key})} : key \in ks} :
              k \in 1..m}

\* The values handed to the serializer.
Values == Scalars \cup UNION {Sized(n) : n \in 1..MaxNodes}

\* The lines the generated documents are made of.
DocLines ==
  { <<"a", ":", " ", "1">>, <<"b", ":", " ", "2">>,
    <<"#", " ", "c">>, <<"a", ":", " ", "1", " ", "#", " ", "c">>,
    <<"a", ":", "\t", "1">>, <<"b", ":", " ", "{", "x", ":", " ", "1", "}">>,
    <<"b", ":", " ", "[", "1", "]">>, <<"b", ":", " ", "&", "x", " ", "1">>,
    <<"a", ":", " ", "i", "t", "'", "s">>, <<"1", ":", " ", "a">>,
    <<"t", "r", "u", "e", ":", " ", "1">>, <<"~", ":", " ", "1">>,
    <<"b", ":", " ", "0", "b", "_">>, <<"a", ":", " ", "1", " ">>,
    <<"a", ":", " ", "b", ":", " ", "c">>, <<"-", " ", "a">>,
    <<"$", "h", "u", "m", "a", "n", "$", ":", " ", "t">>,
    <<"$", "h", "u", "m", "a", "n", "$", ":", " ", "\"">> \o add_crc32(<<"t">>) \o <<"\"">>,
    <<"$", "h", "u", "m", "a", "n", "$", ":", " ", "\"">> \o <<"t">> \o MarkerOpen
      \o <<"A", "A", "A", "A", "A", "A", "]", "\"">> }

RECURSIVE LineSeqs(_)
LineSeqs(n) ==
  IF n = 0 THEN {<<>>} ELSE {Append(ls, l) : ls \in LineSeqs(n - 1), l \in DocLines}

\* The files handed to the validator: 1..MaxLines lines, each ended by a
\* newline.
Documents ==
  UNION {{Flatten([i \in 1..n |-> ls[i] \o <<"\n">>]) : ls \in LineSeqs(n)} : n \in 1..MaxLines}

\* Bounds: the comments of one document, and the times an operation is
\* applied in succession.
MaxComments == 2
MaxPasses == 3

\* A $human$ text that carries a correct marker already.
HumanStamped == VStr(add_crc32(<<"E">>))

\* The value trees handed to the synthesizer: mappings in mappings and in
\* sequences, with and without a $human$ field of their own.
SynthTrees ==
  { VDict(<<Entry(VStr(<<"a">>), VDict(<<Entry(VStr(<<"b">>), VInt(1))>>))>>),
    VList(<<VDict(<<Entry(VStr(<<"a">>), VInt(1))>>)>>),
    VDict(<<Entry(VStr(HUMAN), VStr(<<"E">>)), Entry(VStr(<<"a">>), VInt(1))>>),
    VDict(<<Entry(VStr(<<"a">>), VInt(1)), Entry(VStr(HUMAN), VStr(<<"E">>))>>),
    VDict(<<Entry(VStr(HUMAN), VStr(<<>>)), Entry(VStr(<<"a">>), VInt(1))>>),
    VDict(<<Entry(VStr(HUMAN), VInt(1)), Entry(VStr(<<"a">>), VStr(<<"x">>))>>),
    VDict(<<Entry(VStr(HUMAN), HumanStamped), Entry(VStr(<<"a">>), VList(<<VDict(<<Entry(VStr(HUMAN), VStr(<<"x">>)), Entry(VStr(<<"b">>), VInt(1))>>)>>))>>),
    VDict(<<Entry(VStr(<<"a">>), VDict(<<Entry(VStr(HUMAN), VStr(<<"E">>)), Entry(VStr(<<"b">>), VList(<<VInt(1)>>))>>))>>),
    VDict(<<Entry(VStr(<<"a">>), VDict(<<Entry(VStr(<<"b">>), VDict(<<Entry(VStr(<<"c">>), VInt(1))>>))>>)), Entry(VStr(<<"b">>), VInt(1))>>),
    VStr(<<"x">>),
    VList(<<>>),
    VDict(<<>>),
    VList(<<VList(<<VDict(<<Entry(VStr(HUMAN), VStr(<<"E">>))>>)>>), VStr(<<"x">>)>>) }

\* The comment records: standalone and keyed ones, at the root, at the
\* mapping a, below it and in a sequence element.
CommentRecords ==
  { CommentInfo(<<"c">>, "line", 1, <<>>, None),
    CommentInfo(<<"c">>, "inline", 1, <<>>, <<"a">>),
    CommentInfo(<<"a", ":", " ", "c">>, "line", 1, <<>>, None),
    CommentInfo(<<"p", "|", "q">>, "line", 2, <<>>, None),
    CommentInfo(<<"d">>, "line", 2, <<<<"a">>>>, None),
    CommentInfo(<<"d">>, "inline", 2, <<<<"a">>>>, <<"b">>),
    CommentInfo(<<"e">>, "inline", 3, <<<<"a">>, <<"b">>>>, <<"a">>),
    CommentInfo(<<"f">>, "line", 1, <<<<"0">>>>, None) }

RECURSIVE CommentLists(_)
CommentLists(n) ==
  IF n = 0 THEN {<<>>}
  ELSE CommentLists(n - 1) \cup {Append(cs, c) : cs \in CommentLists(n - 1), c \in CommentRecords}

\* The texts handed to the checksum utility: with and without a marker,
\* correct or not, at the end or before a final newline.
ChecksumTexts ==
  { <<>>,
    <<"X">>,
    <<"T", "e", "s", "t", " ", "c", "o", "m", "m", "e", "n", "t">>,
    <<"X", "[", "c", "r", "c", "3", "2", ":", "A", "A", "A", "A", "A", "A", "]">>,
    <<"X", "[", "c", "r", "c", "3", "2", ":", "A", "A", "A", "A", "A", "A", "]", "\n">>,
    <<"a", "[", "c", "r", "c", "3", "2", ":", "A", "A", "]", "[", "c", "r", "c", "3", "2", ":", "B", "B", "]">>,
    <<"[", "c", "r", "c", "3", "2", ":">>,
    <<"X", "\n">>,
    <<"X", "[", "c", "r", "c", "3", "2", ":", "]">>,
    <<"a", "|", "b">>,
    add_crc32(<<"X">>), add_crc32(<<"X">>) \o <<"\n">> }

\* The characters a character of a marker is replaced by.
TamperChars == {"A", "x", "=", "]", " "}


\* The inputs of the schema runs.  The directives: every choice of the four
\* flags, the directive without a flag, and one whose lowercase flag is false.
FlagNames == <<LOWERCASE, UPPERCASE, CRC32, PARITY>>
Directive(on) ==
  LET Chosen(k) == k \in on IN
  VDict([i \in 1..Len(SelectSeq(FlagNames, Chosen)) |->
           Entry(VStr(SelectSeq(FlagNames, Chosen)[i]), VBool(TRUE))])
Directives ==
  {Directive(on) : on \in SUBSET {LOWERCASE, UPPERCASE, CRC32, PARITY}}
  \cup {VDict(<<Entry(VStr(LOWERCASE), VBool(FALSE)), Entry(VStr(UPPERCASE), VBool(TRUE))>>)}

NAME == <<"n", "a", "m", "e">>
USER == <<"u", "s", "e", "r">>
LIST == <<"l", "i", "s", "t">>
Field(d) == VDict(<<Entry(VStr(<<"t", "y", "p", "e">>), VStr(<<"s", "t", "r", "i", "n", "g">>)), Entry(VStr(X_ENCODING), d)>>)
Props(k, v) == VDict(<<Entry(VStr(PROPERTIES), VDict(<<Entry(VStr(k), v)>>))>>)

\* the directive on the field name: of the root object, of the object user,
\* of the items of the array list; and on the root itself
Schemas ==
  UNION { { Props(NAME, Field(d)),
             Props(USER, Props(NAME, Field(d))),
             Props(LIST, VDict(<<Entry(VStr(ITEMS), Props(NAME, Field(d)))>>)),
             Props(LIST, VDict(<<Entry(VStr(ITEMS), Field(d))>>)),
             Field(d) } : d \in Directives }

Leaves ==
  { VStr(<<"a", "b">>), VStr(<<"A", "b">>), VStr(<<>>),
     VStr(<<"a", "B", "[", "c", "r", "c", "3", "2", ":", "A", "A", "A", "A", "A", "A", "]">>),
     VStr(<<"a", "[", "C", "R", "C", "3", "2", ":", "A", "A", "]">>),
     VStr(<<"a", "[", "c", "r", "c", "3", "2", ":", "A", "A", "]", "[", "c", "r", "c", "3", "2", ":", "B", "B", "]">>),
     VStr(<<"x", "[", "p", "a", "r", "i", "t", "y", ":", "1", "]">>),
     VStr(add_crc32(<<"A", "B">>)),
     VStr(<<"X", "[", "c", "r", "c", "3", "2", ":", "A", "A", "A", "A", "A", "A", "]", "\n">>),
     VStr(<<"a", "[", "p", "a", "r", "i", "t", "y", ":">>),
     VInt(1), VBool(TRUE), VNull }

Instances ==
  UNION { { VDict(<<Entry(VStr(NAME), l)>>),
             VDict(<<Entry(VStr(USER), VDict(<<Entry(VStr(NAME), l)>>))>>),
             VDict(<<Entry(VStr(LIST), VList(<<VDict(<<Entry(VStr(NAME), l)>>)>>))>>),
             VDict(<<Entry(VStr(LIST), VDict(<<Entry(VStr(NAME), l)>>))>>),
             VDict(<<Entry(VStr(USER), l), Entry(VStr(NAME), l)>>),
             VList(<<l>>),
             l } : l \in Leaves }

\* The inputs of the checks: texts with and without a checksum marker, each
\* with no parity suffix, a well-formed one of either bit, and malformed ones.
MaxChecks == 2
CheckedBases ==
  { <<"x">>, <<"a", "b">>, <<"a", "b", "[", "c", "r", "c", "3", "2", ":", "A", "A", "A", "A", "A", "A", "]">>, add_crc32(<<"a", "b">>) }
CheckedSuffixes ==
  { <<>>, <<"[", "p", "a", "r", "i", "t", "y", ":", "0", "]">>, <<"[", "p", "a", "r", "i", "t", "y", ":", "1", "]">>, <<"[", "p", "a", "r", "i", "t", "y", ":", "0">>,
     <<"[", "p", "a", "r", "i", "t", "y", ":", "1">>, <<"[", "p", "a", "r", "i", "t", "y", ":", "0", "]", "z">>, <<"[", "p", "a", "r", "i", "t", "y", ":", "1", "]", "z">>, <<"[", "p", "a", "r", "i", "t", "y", ":", "2", "]">>,
     <<"[", "p", "a", "r", "i", "t", "y", ":", "]">>, <<"[", "p", "a", "r", "i", "t", "y", ":", " ", "0", " ", "]">>, <<"[", "p", "a", "r", "i", "t", "y", ":", "+", "1", "]">> }
CheckedLeaves ==
  {VStr(b \o x) : b \in CheckedBases, x \in CheckedSuffixes} \cup {VInt(1)}
CheckedInstances ==
  {VDict(<<Entry(VStr(NAME), l)>>) : l \in CheckedLeaves}
  \cup {VDict(<<Entry(VStr(LIST), VList(<<VDict(<<Entry(VStr(NAME), VStr(b))>>)>>))>>) :
          b \in CheckedBases}
CheckedSchemas ==
  {Props(NAME, Field(Directive(on))) : on \in { {PARITY}, {CRC32}, {CRC32, PARITY}, {LOWERCASE} }}
  \cup {Props(LIST, VDict(<<Entry(VStr(ITEMS), Props(NAME, Field(Directive({CRC32, PARITY}))))>>))}

(***************************************************************************)
(* The runs: a value is serialized, and the text is either handed to the   *)
(* validator or loaded and serialized again (test_round_trip); or a file   *)
(* is handed to the validator.                                             *)
(***************************************************************************)

VARIABLES
  pc,           \* "idle", "encoded", "parsed", "regenerated", "validated", "checked"
  data,         \* the value handed to the serializer
  yaml_str,     \* the text: the serializer's output, or the content of the file
  parsed,       \* the outcome of yaml.safe_load(yaml_str)
  regenerated,  \* the text serialized from the loaded value
  result,       \* the outcome of validate_string(yaml_str)
  tree,         \* the tree handed to convert_yaml_to_deterministic
  comments,     \* the comment records handed over with it
  options,      \* its flags preserve_comments and add_crc32_checksums
  converted,    \* the tree it returned
  passes,       \* how many times the conversion has been applied
  stripped,     \* strip_human_fields of the converted tree
  original,     \* the text handed to add_crc32 or extract_crc32
  stamped,      \* the stamped text, as it stands
  stamps,       \* how many times add_crc32 has been applied
  tampered,     \* whether a character of the appended marker was replaced
  verdict,      \* the outcome of validate_crc32(stamped)
  extracted,    \* the outcome of extract_crc32(text)
  schema,       \* the schema handed to apply_encoding_instructions
  instance,     \* the data handed over with it
  applied,      \* the data it returned
  applications, \* how many times the directives have been applied
  diagnostics,  \* what validate_encoding_instructions returned last
  checks,       \* how many times it has been called
  previous      \* what the call before the last returned, as its caller holds it

runVars == <<data, yaml_str, parsed, regenerated, result>>
synthVars == <<tree, comments, options, converted, passes, stripped>>
crcVars == <<original, stamped, stamps, tampered, verdict, extracted>>
schemaVars == <<schema, instance, applied, applications, diagnostics, checks, previous>>

vars == <<pc, runVars, synthVars, crcVars, schemaVars>>

NotLoaded == [st |-> "none", v |-> VNull]
NoResult == RaisedResult("none")
NoOptions == [preserve_comments |-> FALSE, add_crc32_checksums |-> FALSE]
NoVerdict == [ok |-> FALSE, expected |-> <<"None">>, actual |-> <<"None">>]

Init ==
  /\ pc = "idle"
  /\ data = VNull
  /\ yaml_str = <<>>
  /\ parsed = NotLoaded
  /\ regenerated = <<>>
  /\ result = NoResult
  /\ tree = VNull
  /\ comments = <<>>
  /\ options = NoOptions
  /\ converted = VNull
  /\ passes = 0
  /\ stripped = VNull
  /\ original = <<>>
  /\ stamped = <<>>
  /\ stamps = 0
  /\ tampered = FALSE
  /\ verdict = NoVerdict
  /\ extracted = <<NoMarker, <<>>>>
  /\ schema = VNull
  /\ instance = VNull
  /\ applied = VNull
  /\ applications = 0
  /\ diagnostics = <<>>
  /\ checks = 0
  /\ previous = <<>>

\* serializer.to_deterministic_yaml(v)
Serialize(v) ==
  /\ pc = "idle"
  /\ data' = v
  /\ yaml_str' = encode(v)
  /\ pc' = "encoded"
  /\ UNCHANGED <<parsed, regenerated, result>>
  /\ UNCHANGED <<synthVars, crcVars, schemaVars>>

\* parsed_pyyaml = yaml.safe_load(restricted_yaml)
Load ==
  /\ pc = "encoded"
  /\ ~Raised(yaml_str)
  /\ parsed' = safe_load(yaml_str)
  /\ pc' = "parsed"
  /\ UNCHANGED <<data, yaml_str, regenerated, result>>
  /\ UNCHANGED <<synthVars, crcVars, schemaVars>>

\* regenerated = to_restricted_yaml(parsed_pyyaml)
Regenerate ==
  /\ pc = "parsed"
  /\ parsed.st = "ok"
  /\ regenerated' = encode(parsed.v)
  /\ pc' = "regenerated"
  /\ UNCHANGED <<data, yaml_str, parsed, result>>
  /\ UNCHANGED <<synthVars, crcVars, schemaVars>>

\* validate_string on the serializer's output
ValidateOutput ==
  /\ pc = "encoded"
  /\ ~Raised(yaml_str)
  /\ result' = validate_string(yaml_str)
  /\ pc' = "validated"
  /\ UNCHANGED <<data, yaml_str, parsed, regenerated>>
  /\ UNCHANGED <<synthVars, crcVars, schemaVars>>

\* validate_file: the content of the file is read and validated
ValidateFile(content) ==
  /\ pc = "idle"
  /\ yaml_str' = content
  /\ result' = validate_string(content)
  /\ pc' = "checked"
  /\ UNCHANGED <<data, parsed, regenerated>>
  /\ UNCHANGED <<synthVars, crcVars, schemaVars>>

Next ==
  \/ \E v \in Values : Serialize(v)
  \/ Load
  \/ Regenerate
  \/ ValidateOutput
  \/ \E content \in Documents : ValidateFile(content)

Spec == Init /\ [][Next]_vars

(***************************************************************************)
(* The runs of the synthesizer: a tree and its comment records are         *)
(* converted, converted again with the same records, and stripped.         *)
(***************************************************************************)

\* convert_yaml_to_deterministic(t, cs, p, s)
Convert(t, cs, p, s) ==
  /\ pc = "idle"
  /\ tree' = t
  /\ comments' = cs
  /\ options' = [preserve_comments |-> p, add_crc32_checksums |-> s]
  /\ converted' = convert_yaml_to_deterministic(t, cs, p, s)
  /\ passes' = 1
  /\ pc' = "converted"
  /\ UNCHANGED <<stripped, runVars, crcVars, schemaVars>>

\* the returned tree is converted again, with the same records and flags
Reconvert ==
  /\ pc = "converted"
  /\ passes < MaxPasses
  /\ converted' = convert_yaml_to_deterministic(converted, comments,
                     options.preserve_comments, options.add_crc32_checksums)
  /\ passes' = passes + 1
  /\ UNCHANGED <<pc, tree, comments, options, stripped, runVars, crcVars, schemaVars>>

\* strip_human_fields(converted)
Strip ==
  /\ pc = "converted"
  /\ stripped' = strip_human_fields(converted)
  /\ pc' = "stripped"
  /\ UNCHANGED <<tree, comments, options, converted, passes, runVars, crcVars, schemaVars>>

SynthNext ==
  \/ \E t \in SynthTrees, cs \in CommentLists(MaxComments), p \in BOOLEAN, s \in BOOLEAN :
       Convert(t, cs, p, s)
  \/ Reconvert
  \/ Strip

SynthSpec == Init /\ [][SynthNext]_vars

(***************************************************************************)
(* The runs of the checksum marker: a text is stamped, stamped again, a    *)
(* character of the appended marker is replaced, the text is validated;    *)
(* or a text is split by extract_crc32.                                    *)
(***************************************************************************)

MarkerLen == 14

\* stamped = add_crc32(X)
Stamp(X) ==
  /\ pc = "idle"
  /\ original' = X
  /\ stamped' = add_crc32(X)
  /\ stamps' = 1
  /\ pc' = "stamped"
  /\ UNCHANGED <<tampered, verdict, extracted, runVars, synthVars, schemaVars>>

\* stamped = add_crc32(stamped)
Restamp ==
  /\ pc = "stamped"
  /\ stamps < MaxPasses
  /\ stamped' = add_crc32(stamped)
  /\ stamps' = stamps + 1
  /\ UNCHANGED <<pc, original, tampered, verdict, extracted, runVars, synthVars, schemaVars>>

\* the i-th character of the marker that add_crc32 appended is replaced by
\* the different character ch
Tamper(i, ch) ==
  /\ pc = "stamped"
  /\ LET k == Len(stamped) - MarkerLen + i IN
       /\ stamped[k] # ch
       /\ stamped' = [stamped EXCEPT ![k] = ch]
  /\ tampered' = TRUE
  /\ pc' = "tampered"
  /\ UNCHANGED <<original, stamps, verdict, extracted, runVars, synthVars, schemaVars>>

\* validate_crc32(stamped)
Validate ==
  /\ pc \in {"stamped", "tampered"}
  /\ verdict' = validate_crc32(stamped)
  /\ pc' = "verified"
  /\ UNCHANGED <<original, stamped, stamps, tampered, extracted, runVars, synthVars, schemaVars>>

\* extract_crc32(X)
Extract(X) ==
  /\ pc = "idle"
  /\ original' = X
  /\ extracted' = extract_crc32(X)
  /\ pc' = "extracted"
  /\ UNCHANGED <<stamped, stamps, tampered, verdict, runVars, synthVars, schemaVars>>

CrcNext ==
  \/ \E X \in ChecksumTexts : Stamp(X)
  \/ Restamp
  \/ \E i \in 1..MarkerLen, ch \in TamperChars : Tamper(i, ch)
  \/ Validate
  \/ \E X \in ChecksumTexts : Extract(X)

CrcSpec == Init /\ [][CrcNext]_vars

(***************************************************************************)
(* The runs of the schema encoding layer: the directives of a schema are   *)
(* applied to a data tree.                                                 *)
(***************************************************************************)

\* applied = apply_encoding_instructions(d, sc)
Apply(d, sc) ==
  /\ pc = "idle"
  /\ schema' = sc
  /\ instance' = d
  /\ applied' = apply_encoding_instructions(d, sc, <<>>)
  /\ applications' = 1
  /\ pc' = "applied"
  /\ UNCHANGED <<diagnostics, checks, previous, runVars, synthVars, crcVars>>

\* applied = apply_encoding_instructions(applied, schema)
Reapply ==
  /\ pc = "applied"
  /\ applications < MaxPasses
  /\ applied' = apply_encoding_instructions(applied, schema, <<>>)
  /\ applications' = applications + 1
  /\ UNCHANGED <<pc, schema, instance, diagnostics, checks, previous, runVars, synthVars, crcVars>>

\* diagnostics = validate_encoding_instructions(applied, schema)
CheckApplied ==
  /\ pc = "applied"
  /\ checks < MaxChecks
  /\ diagnostics' = validate_encoding_instructions(applied, schema, <<>>,
                                                   FreshErrors(diagnostics))
  /\ previous' = diagnostics
  /\ checks' = checks + 1
  /\ pc' = "diagnosed"
  /\ UNCHANGED <<schema, instance, applied, applications, runVars, synthVars, crcVars>>

\* diagnostics = validate_encoding_instructions(d, sc): data checked as it
\* was given, in a process that may have checked other data before
CheckData(d, sc) ==
  /\ pc \in {"idle", "diagnosed"}
  /\ applications = 0
  /\ checks < MaxChecks
  /\ schema' = sc
  /\ instance' = d
  /\ diagnostics' = validate_encoding_instructions(d, sc, <<>>, FreshErrors(diagnostics))
  /\ previous' = diagnostics
  /\ checks' = checks + 1
  /\ pc' = "diagnosed"
  /\ UNCHANGED <<applied, applications, runVars, synthVars, crcVars>>

SchemaNext ==
  \/ \E d \in Instances, sc \in Schemas : Apply(d, sc)
  \/ Reapply
  \/ CheckApplied
  \/ \E d \in CheckedInstances, sc \in CheckedSchemas : CheckData(d, sc)

SchemaSpec == Init /\ [][SchemaNext]_vars

(***************************************************************************)
(* The runs of the core operations together: encode, synthesize, apply and *)
(* check, called one after the other on the trees they were given.         *)
(***************************************************************************)

CoreNext ==
  \/ \E v \in Values : Serialize(v)
  \/ SynthNext
  \/ SchemaNext

CoreSpec == Init /\ [][CoreNext]_vars

(***************************************************************************)
(* The runs of the encoder alone: one value is serialized.  The values     *)
(* hold the keys, texts and floats the serializer treats specially.        *)
(***************************************************************************)

\* Keys: identifiers, the empty key, keys holding a blank, a tab or a
\* newline.
EncoderKeys ==
  { <<"a">>, <<"b">>, <<"a", "_", "1">>, <<>>, <<"a", " ", "b">>, <<"a", "\n">>,
    <<"\n", "a">>, <<"a", "\t", "b">>, HUMAN }

\* Texts: the examples, the one-character texts, the spellings of the
\* keywords, special floats and empty collections, texts holding control
\* characters.
EncoderTexts ==
  SampleTexts \cup StringsUpTo(1) \cup
  { <<"n", "u", "l", "l">>, <<".", "n", "a", "n">>, <<".", "i", "n", "f">>,
    <<"-", ".", "i", "n", "f">>, <<"1", "e", "+", "2", "0">>, <<"1", ".", "5">>,
    <<"[", "]">>, <<"{", "}">>, <<"\t">>, <<"a", "\r", "b">>, <<"a", "\n", "b">>,
    <<"a", "\t">>, <<"\t", "a">> }

\* str() of the floats handed to the serializer
EncoderFloats ==
  { <<"n", "a", "n">>, <<"i", "n", "f">>, <<"-", "i", "n", "f">>, <<"1", ".", "5">>,
    <<"4", "2", ".", "0">>, <<"1", "e", "+", "2", "0">> }

EncoderScalars ==
  {VNull, VBool(TRUE), VBool(FALSE), VInt(0), VInt(42), VInt(-7)}
    \cup {VFloat(f) : f \in EncoderFloats} \cup {VStr(t) : t \in EncoderTexts}

EncoderLeaves ==
  {VInt(1), VStr(<<"x">>), VStr(<<"a", "\t", "b">>), VList(<<>>), VDict(<<>>)}

\* The values handed to the encoder: scalars, mappings of one entry under
\* every key, the trees of up to three nodes, and each such collection as
\* the one element of a sequence.
EncoderInputs ==
  EncoderScalars
    \cup {VDict(<<Entry(VStr(k), v)>>) : k \in EncoderKeys, v \in EncoderLeaves}
    \cup Sized(2) \cup Sized(3)
    \cup {VList(<<c>>) : c \in Sized(2) \cup Sized(3)}

EncodeNext == \E v \in EncoderInputs : Serialize(v)

EncodeSpec == Init /\ [][EncodeNext]_vars

(***************************************************************************)
(* Properties of the encoder                                               *)
(***************************************************************************)

\* The mappings of a value with the indent they are serialized at: the value
\* itself at indent, the items of a list and the values of a mapping one
\* level deeper.
RECURSIVE Mappings(_, _)
Mappings(v, indent) ==
  (IF v.t = "dict" /\ v.c # <<>> THEN {<<v, indent>>} ELSE {})
  \cup (IF v.t = "list" THEN UNION {Mappings(v.c[i], indent + 1) : i \in 1..Len(v.c)}
        ELSE IF v.t = "dict" THEN UNION {Mappings(ValOf(v.c[i]), indent + 1) : i \in 1..Len(v.c)}
        ELSE {})

\* The keys of the mapping m in the order in which its text, serialized at
\* indent, holds them: the lines that start a key at that indent, each matched
\* with the entry whose key it opens with.
EmittedKeys(m, indent) ==
  LET IsKeyLine(l) == /\ Len(l) > 2 * indent
                      /\ SubSeq(l, 1, 2 * indent) = indent_str(indent)
                      /\ l[2 * indent + 1] \notin {" ", "-"}
      ls == SelectSeq(split(to_deterministic_yaml(m, indent), "\n"), IsKeyLine)
  IN [i \in 1..Len(ls) |->
        IF \E j \in 1..Len(m.c) : startswith(Drop(ls[i], 2 * indent), key_str(KeyOf(m.c[j])) \o <<":">>)
        THEN (KeyOf(m.c[CHOOSE j \in 1..Len(m.c) :
                startswith(Drop(ls[i], 2 * indent), key_str(KeyOf(m.c[j])) \o <<":">>)])).s
        ELSE <<"?">>]

Ascending(ks) == \A i \in 1..(Len(ks) - 1) : StrLT(ks[i], ks[i + 1])

\* The values that hold the entries of v in every order of insertion, at
\* every depth.
RECURSIVE Reorderings(_), ReorderedSeqs(_)
Reorderings(v) ==
  IF v.t = "list" THEN {VList(c) : c \in ReorderedSeqs(v.c)}
  ELSE IF v.t = "entry" THEN {Entry(KeyOf(v), w) : w \in Reorderings(ValOf(v))}
  ELSE IF v.t = "dict" THEN
    {VDict([i \in 1..Len(c) |-> c[f[i]]]) : c \in ReorderedSeqs(v.c), f \in Permutations(1..Len(v.c))}
  ELSE {v}

ReorderedSeqs(c) ==
  IF c = <<>> THEN {<<>>}
  ELSE {<<h>> \o t : h \in Reorderings(c[1]), t \in ReorderedSeqs(Tail(c))}

\* C1: the serializer emits the entries of every mapping, at every depth, in
\* ascending code-point order of the keys, whatever the order of insertion:
\* the text of a value is the text of each of its reorderings, and the keys of
\* each of its mappings stand in the text in ascending order, all of them.
C1_KeysSortedAtEveryDepth ==
  pc = "encoded" =>
    /\ \A w \in Reorderings(data) : encode(w) = yaml_str
    /\ \A md \in Mappings(data, 0) :
         /\ Len(EmittedKeys(md[1], md[2])) = Len(md[1].c)
         /\ Ascending(EmittedKeys(md[1], md[2]))

\* C1, its case: the mapping {"a": 1, "!a": 1}, built in that order, has been
\* serialized, and the text holds "!a" before a.
C1_Witness ==
  /\ pc = "encoded"
  /\ data = VDict(<<Entry(VStr(<<"a">>), VInt(1)), Entry(VStr(<<"!", "a">>), VInt(1))>>)
  /\ yaml_str = <<"\"", "!", "a", "\"", ":", " ", "1", "\n", "a", ":", " ", "1">>

\* C2: in the text of every mapping that holds the key $human$, the entry of
\* $human$ comes before every other entry, and the other keys follow in
\* ascending order.
C2_HumanFirst ==
  pc = "encoded" =>
    \A md \in Mappings(data, 0) :
      (\E i \in 1..Len(md[1].c) : KeyOf(md[1].c[i]) = VStr(HUMAN)) =>
        /\ Len(EmittedKeys(md[1], md[2])) = Len(md[1].c)
        /\ EmittedKeys(md[1], md[2])[1] = HUMAN
        /\ Ascending(Tail(EmittedKeys(md[1], md[2])))

\* Python ==: numbers by value (True == 1), texts by their characters, lists
\* item by item, mappings entry by entry whatever the order.
RECURSIVE PyEq(_, _)
PyEq(a, b) ==
  IF KeyGroup(a) = "num" /\ KeyGroup(b) = "num" THEN a.n = b.n
  ELSE IF a.t # b.t THEN FALSE
  ELSE IF a.t = "list" THEN Len(a.c) = Len(b.c) /\ \A i \in 1..Len(a.c) : PyEq(a.c[i], b.c[i])
  ELSE IF a.t = "dict" THEN
    /\ Len(a.c) = Len(b.c)
    /\ \A i \in 1..Len(a.c) : \E j \in 1..Len(b.c) :
         KeyEq(KeyOf(a.c[i]), KeyOf(b.c[j])) /\ PyEq(ValOf(a.c[i]), ValOf(b.c[j]))
  ELSE a = b

\* C3: serializing is idempotent through a load: the text serialized from
\* the value loaded from the serializer's text is that text.
C3_IdempotentThroughParse == pc = "regenerated" => regenerated = yaml_str

\* C4: round trip: loading the serializer's text succeeds and yields a value
\* equal to the value serialized.
C4_RoundTrip == pc = "parsed" => parsed.st = "ok" /\ PyEq(parsed.v, data)

\* C5: the validator accepts the serializer's own output: valid, with no
\* error.
C5_ValidatorAcceptsEncoderOutput ==
  pc = "validated" => result.raised = "" /\ result.valid /\ result.errors = <<>>

\* The text x as the serializer emits it in double quotes.
InDoubleQuotes(x) == <<"\"">> \o escape_string(x) \o <<"\"">>

\* x looks like an integer, a float, a leading-zero numeral, an octal or hex
\* numeral, a timestamp, an exponent numeral, or is a keyword of the fixed set.
LooksLikeScalar(x) ==
  \/ INTEGER_PATTERN(x) \/ FLOAT_PATTERN(x) \/ LEADING_ZERO_PATTERN(x) \/ OctHexPrefix(x)
  \/ TIMESTAMP_PATTERN(x) \/ ExponentPattern(x) \/ x \in special_values

\* The examples of the quoting rule: five texts emitted quoted, one unquoted.
QuotingExamples ==
  /\ data \in {VStr(<<>>), VStr(<<"4", "2">>), VStr(<<"t", "r", "u", "e">>),
               VStr(<<"h", "e", "l", "l", "o", "-", "w", "o", "r", "l", "d">>),
               VStr(<<"h", "e", "l", "l", "o", ":", "w", "o", "r", "l", "d">>)}
       => yaml_str = InDoubleQuotes(data.s)
  /\ data = VStr(<<"h", "e", "l", "l", "o", "_", "w", "o", "r", "l", "d">>)
       => yaml_str = data.s

ErrorsOf(r) == {r.errors[i] : i \in 1..Len(r.errors)}

\* C7: whenever the supplied text parses but differs, after trimming, from
\* the encoding of its parse, the validator records an error of line 0 and
\* returns valid = FALSE; a document whose keys are merely out of order is
\* such a text.
C7_CanonicalityCheck ==
  (/\ pc = "checked"
   /\ safe_load(yaml_str).st = "ok"
   /\ ~Raised(encode(safe_load(yaml_str).v))
   /\ strip(encode(safe_load(yaml_str).v)) # strip(yaml_str)) =>
    /\ result.raised = ""
    /\ ~result.valid
    /\ \E e \in ErrorsOf(result) : e.line = 0

\* The line holds no quote character: whatever stands on it is outside
\* quoted text.
QuoteFree(line) == ~Contains(line, "\"") /\ ~Contains(line, "'")

\* The line is a comment, or ends in one.
HasComment(line) ==
  /\ QuoteFree(line)
  /\ \/ startswith(strip(line), <<"#">>)
     \/ HasSub(line, <<" ", "#", " ">>)

CommentMessages ==
  {"Comments not allowed (use $human$ fields instead)",
   "Inline comments not allowed (use $human$ fields instead)"}

\* C8: each line holding a comment, a tab, a flow-style brace or bracket
\* outside quoted text, or an anchor marker & gets an error that carries the
\* number of that line, counted from 1, and the message of that violation;
\* and the document is invalid.
C8_LineScopedErrors ==
  pc = "checked" =>
    LET lines == split(yaml_str, "\n") IN
    \A i \in 1..Len(lines) :
      /\ HasComment(lines[i]) =>
           /\ result.raised = "" /\ ~result.valid
           /\ \E e \in ErrorsOf(result) : e.line = i /\ e.message \in CommentMessages
      /\ Contains(lines[i], "\t") =>
           /\ result.raised = "" /\ ~result.valid
           /\ \E e \in ErrorsOf(result) : e.line = i /\ e.message = TabsMessage
      /\ (QuoteFree(lines[i]) /\ ContainsAny(lines[i], {"{", "["})) =>
           /\ result.raised = "" /\ ~result.valid
           /\ \E e \in ErrorsOf(result) : e.line = i /\ e.message = FlowMessage
      /\ (QuoteFree(lines[i]) /\ Contains(lines[i], "&")) =>
           /\ result.raised = "" /\ ~result.valid
           /\ \E e \in ErrorsOf(result) : e.line = i /\ e.message = AnchorsMessage

\* The texts of the $human$ fields of a value, at every depth.
RECURSIVE HumanTexts(_)
HumanTexts(v) ==
  IF v.t = "dict" THEN
    UNION {(IF KeyOf(v.c[i]) = VStr(HUMAN) /\ ValOf(v.c[i]).t = "str"
            THEN {ValOf(v.c[i]).s} ELSE {}) \cup HumanTexts(ValOf(v.c[i])) : i \in 1..Len(v.c)}
  ELSE IF v.t = "list" THEN UNION {HumanTexts(v.c[i]) : i \in 1..Len(v.c)}
  ELSE {}

\* A line without the checksum marker its quoted text ends in.
WithoutMarker(line) ==
  IF line # <<>> /\ line[Len(line)] = "\"" /\ extract_crc32(Take(line, Len(line) - 1))[1] # NoMarker
  THEN extract_crc32(Take(line, Len(line) - 1))[2] \o <<"\"">>
  ELSE line

\* The document without its checksum markers.
WithoutMarkers(text) ==
  LET lines == split(text, "\n") IN
  join(<<"\n">>, [i \in 1..Len(lines) |-> WithoutMarker(lines[i])])

\* The message of a checksum that does not match, as validate_crc32 words it.
ChecksumMessage == "CRC32 mismatch"

\* C9: for a document that is valid once its checksum markers are taken
\* away, the validator records a checksum-mismatch error exactly when some
\* $human$ text carries a marker that validate_crc32 rejects; when every
\* marker is correct or absent the document is valid with no error.
C9_ChecksumIntegrity ==
  (/\ pc = "checked"
   /\ safe_load(yaml_str).st = "ok"
   /\ HumanTexts(safe_load(yaml_str).v) # {}
   /\ validate_string(WithoutMarkers(yaml_str)).raised = ""
   /\ validate_string(WithoutMarkers(yaml_str)).valid) =>
    /\ result.raised = ""
    /\ (\E e \in ErrorsOf(result) : e.message = ChecksumMessage)
         <=> (\E t \in HumanTexts(safe_load(yaml_str).v) : ~validate_crc32(t).ok)
    /\ (\A t \in HumanTexts(safe_load(yaml_str).v) : validate_crc32(t).ok)
         => result.valid /\ result.errors = <<>>

\* C10: a validation run always returns a result: it never raises.
C10_NeverRaises == pc \in {"validated", "checked"} => result.raised = ""

(***************************************************************************)
(* Properties of the synthesizer                                           *)
(***************************************************************************)

\* The paths of the mappings of a tree, named as add_human_fields names
\* them: the key's text under a mapping, the index under a list.  The
\* value of an annotation field is not descended into.
RECURSIVE MappingPaths(_, _)
MappingPaths(v, path) ==
  IF v.t = "dict" THEN
    {path} \cup UNION {IF KeyOf(v.c[i]) = VStr(HUMAN) THEN {}
                       ELSE MappingPaths(ValOf(v.c[i]), Append(path, str(KeyOf(v.c[i])))) :
                       i \in 1..Len(v.c)}
  ELSE IF v.t = "list" THEN
    UNION {MappingPaths(v.c[i], Append(path, NatToStr(i - 1))) : i \in 1..Len(v.c)}
  ELSE {}

\* The node of a tree at a path
RECURSIVE NodeAt(_, _)
NodeAt(v, path) ==
  IF path = <<>> THEN v
  ELSE IF v.t = "dict"
  THEN NodeAt(ValOf(v.c[CHOOSE i \in 1..Len(v.c) : str(KeyOf(v.c[i])) = path[1]]), Tail(path))
  ELSE NodeAt(v.c[CHOOSE i \in 1..Len(v.c) : NatToStr(i - 1) = path[1]], Tail(path))

HasHuman(m) == \E i \in 1..Len(m.c) : KeyOf(m.c[i]) = VStr(HUMAN)
HumanOf(m) == ValOf(m.c[CHOOSE i \in 1..Len(m.c) : KeyOf(m.c[i]) = VStr(HUMAN)])

\* The records the field of the mapping at path P is stated to take: the
\* standalone records at P, and the records at P's parent whose associated
\* key is P's last key.
StatedRelevant(c, P) ==
  \/ c.associated_key = None /\ c.key_path = P
  \/ /\ P # <<>>
     /\ c.associated_key # None
     /\ c.key_path = Take(P, Len(P) - 1)
     /\ c.associated_key = P[Len(P)]

\* The field of a mapping after the records rs were consolidated into it:
\* absent or as before when there is none, else their parts joined and
\* appended to the text the field had.
FieldHolds(before, after, rs) ==
  IF rs = <<>>
  THEN /\ HasHuman(after) <=> HasHuman(before)
       /\ HasHuman(before) => HumanOf(after) = HumanOf(before)
  ELSE LET C == join(<<" ", "|", " ">>, [i \in 1..Len(rs) |-> CommentPart(rs[i])]) IN
       /\ HasHuman(after)
       /\ HumanOf(after) = IF HasHuman(before) /\ Truthy(HumanOf(before))
                           THEN VStr(str(HumanOf(before)) \o <<" ", "|", " ">> \o C)
                           ELSE VStr(C)

\* C11: with preserve=true the records consolidated into the annotation
\* field of the mapping at path P are exactly the standalone records whose
\* path is P and the records at P's parent whose associated key is P's last
\* key; no other record contributes.
C11_RelevantRecords ==
  (pc = "converted" /\ passes = 1 /\ options.preserve_comments
     /\ ~options.add_crc32_checksums) =>
    \A P \in MappingPaths(tree, <<>>) :
      LET Stated(c) == StatedRelevant(c, P) IN
      FieldHolds(NodeAt(tree, P), NodeAt(converted, P), SelectSeq(comments, Stated))

\* What a record sequence says: the text and the associated key of each
\* record, in order.
Said(rs) == [i \in 1..Len(rs) |-> <<rs[i].text, rs[i].associated_key>>]

\* The records of cs that consolidate_comments takes for the path P
RelevantTo(cs, P) ==
  LET Relevant(c) == BelongsTo(c, P) IN SelectSeq(cs, Relevant)

\* C12: consolidation is unambiguous: two record sequences for the same
\* path that differ in a text or in an associated key never consolidate to
\* the same string.
C12_ConsolidationUnambiguous ==
  (pc = "converted" /\ passes = 1 /\ options.preserve_comments) =>
    \A P \in MappingPaths(tree, <<>>) :
      \A others \in CommentLists(MaxComments) :
        Said(RelevantTo(comments, P)) # Said(RelevantTo(others, P))
          => consolidate_comments(comments, P) # consolidate_comments(others, P)

\* k copies of a text, one after the other
RECURSIVE Copies(_, _)
Copies(k, x) == IF k = 0 THEN <<>> ELSE x \o Copies(k - 1, x)

\* The mappings of the tree that carry an annotation with non-empty text
Annotated(t) ==
  {P \in MappingPaths(t, <<>>) :
     /\ HasHuman(NodeAt(t, P))
     /\ HumanOf(NodeAt(t, P)).t = "str"
     /\ HumanOf(NodeAt(t, P)).s # <<>>}

\* C13: a mapping that has an annotation with non-empty text E keeps E: when
\* the comments of its path consolidate to the non-empty text C, the field is
\* E followed, after k applications with the same comments, by k copies of
\* " | " C; when no comment applies the field stays E.
C13_MergeKeepsExisting ==
  (pc = "converted" /\ options.preserve_comments /\ ~options.add_crc32_checksums) =>
    \A P \in Annotated(tree) :
      LET E == HumanOf(NodeAt(tree, P)).s
          C == consolidate_comments(comments, P)
          field == HumanOf(NodeAt(converted, P))
      IN /\ HasHuman(NodeAt(converted, P))
         /\ IF C # None /\ C # <<>>
            THEN field = VStr(E \o Copies(passes, <<" ", "|", " ">> \o C))
            ELSE field = VStr(E)

\* an annotated mapping whose path has comments, converted twice
C13_Witness ==
  /\ pc = "converted" /\ passes = 2
  /\ options.preserve_comments /\ ~options.add_crc32_checksums
  /\ \E P \in Annotated(tree) :
       /\ consolidate_comments(comments, P) # None
       /\ Len(HumanOf(NodeAt(converted, P)).s) > Len(HumanOf(NodeAt(tree, P)).s)

\* The text holds a marker "[crc32:...]" somewhere
HoldsMarker(x) ==
  \E i \in 1..Len(x), n \in 1..Len(x) :
    /\ n - i >= 8
    /\ SubSeq(x, i, i + 6) = MarkerOpen
    /\ x[n] = "]"
    /\ AllIn(SubSeq(x, i + 7, n - 1), MarkerChars)

\* The annotation is stamped: its text ends with a marker, the marker is the
\* checksum of the text before it, and that text holds no other marker.
StampedOnce(x) ==
  /\ extract_crc32(x)[1] # NoMarker
  /\ x = extract_crc32(x)[2] \o MarkerOpen \o extract_crc32(x)[1] \o <<"]">>
  /\ validate_crc32(x).ok
  /\ ~HoldsMarker(extract_crc32(x)[2])

\* C14: with preserve=true and stamp_checksum=true every text-valued
\* annotation of the returned tree, at every depth, ends with a marker that
\* validate_crc32 accepts, the marker it carried before is replaced (the
\* text holds no other marker, also when comments were merged into a stamped
\* field), and every value that is not an annotation is unchanged.
C14_EveryAnnotationStamped ==
  (pc = "converted" /\ passes = 1 /\ options.preserve_comments
     /\ options.add_crc32_checksums) =>
    /\ \A P \in MappingPaths(converted, <<>>) :
         (HasHuman(NodeAt(converted, P)) /\ HumanOf(NodeAt(converted, P)).t = "str")
           => StampedOnce(HumanOf(NodeAt(converted, P)).s)
    /\ strip_human_fields(converted) = strip_human_fields(tree)

\* No mapping of the tree, at any depth, has an annotation key
RECURSIVE NoHumanKey(_)
NoHumanKey(v) ==
  IF v.t = "dict" THEN
    \A i \in 1..Len(v.c) : KeyOf(v.c[i]) # VStr(HUMAN) /\ NoHumanKey(ValOf(v.c[i]))
  ELSE IF v.t = "list" THEN \A i \in 1..Len(v.c) : NoHumanKey(v.c[i])
  ELSE TRUE

\* b is a, but for the annotation entries of a: the other keys of each mapping
\* in their order with their values, the items of each list in their order
RECURSIVE SameButHuman(_, _)
SameButHuman(a, b) ==
  IF a.t = "dict" THEN
    LET Kept(e) == KeyOf(e) # VStr(HUMAN)
        kept == SelectSeq(a.c, Kept)
    IN /\ b.t = "dict"
       /\ Len(b.c) = Len(kept)
       /\ \A i \in 1..Len(kept) :
            /\ KeyOf(b.c[i]) = KeyOf(kept[i])
            /\ SameButHuman(ValOf(kept[i]), ValOf(b.c[i]))
  ELSE IF a.t = "list" THEN
    /\ b.t = "list"
    /\ Len(b.c) = Len(a.c)
    /\ \A i \in 1..Len(a.c) : SameButHuman(a.c[i], b.c[i])
  ELSE a = b

\* C15: strip returns, for every tree, a tree in which no mapping at any
\* depth has an annotation key and everything else is as in the tree it was
\* given, and stripping again changes nothing; this holds for
\* strip_human_fields and for synthesis with preserve=false, however often
\* it is applied.
C15_StripIdempotent ==
  /\ pc = "stripped" =>
       /\ NoHumanKey(stripped)
       /\ SameButHuman(converted, stripped)
       /\ strip_human_fields(stripped) = stripped
  /\ (pc = "converted" /\ ~options.preserve_comments) =>
       /\ NoHumanKey(converted)
       /\ SameButHuman(tree, converted)
       /\ converted = strip_human_fields(tree)

\* a tree with an annotation below its top mapping was stripped
C15_Witness ==
  /\ pc = "stripped"
  /\ \E P \in MappingPaths(converted, <<>>) : P # <<>> /\ HasHuman(NodeAt(converted, P))
  /\ stripped # converted

\* C16: stripping the tree that preserving synthesis returned gives the tree
\* that synthesis with preserve=false returns for the same tree, comments and
\* stamp flag: preserving synthesis changes nothing but annotation fields.
C16_StripPreserveDuality ==
  (pc = "stripped" /\ options.preserve_comments) =>
    /\ stripped = convert_yaml_to_deterministic(tree, comments, FALSE,
                                                options.add_crc32_checksums)
    /\ SameButHuman(tree, stripped)

\* synthesis added an annotation to a tree with text values, stamped it, and
\* the result was stripped
C16_Witness ==
  /\ pc = "stripped" /\ passes = 1
  /\ options.preserve_comments /\ options.add_crc32_checksums
  /\ comments # <<>>
  /\ tree.t = "dict" /\ ~HasHuman(tree)
  /\ HasHuman(converted)
  /\ stripped = tree

(***************************************************************************)
(* Properties of the checksum marker                                       *)
(***************************************************************************)

\* C17: for every text, after one or more successive stampings the result is
\* the text stamped once (its content and one marker, not a stack of
\* markers), and validate_crc32 accepts it.
C17_StampReplacesAndValidates ==
  /\ (pc = "stamped" /\ stamps >= 1) =>
       /\ stamped = add_crc32(original)
       /\ stamped = extract_crc32(original)[2] \o MarkerOpen
                      \o calculate_crc32(extract_crc32(original)[2]) \o <<"]">>
       /\ Len(stamped) = Len(extract_crc32(original)[2]) + MarkerLen
       /\ validate_crc32(stamped).ok
  /\ (pc = "verified" /\ ~tampered) => verdict.ok

\* a text that came with a marker was stamped more than once and validated
C17_Witness ==
  /\ pc = "verified" /\ ~tampered /\ stamps >= 2
  /\ extract_crc32(original)[1] # NoMarker
  /\ verdict.ok

\* C18: when one character of the marker that add_crc32 appended is replaced
\* by a different character, validate_crc32 rejects the text, and its message
\* names the expected and the actual checksum.
C18_TamperDetected ==
  (pc = "verified" /\ tampered) =>
    /\ ~verdict.ok
    /\ verdict.expected # <<>>
    /\ verdict.actual # <<>>

\* C19: extract_crc32 splits without loss: it returns no marker and the text
\* unchanged, or a marker m and a content with text = content "[crc32:" m "]",
\* the marker being the last characters of the text.
C19_ExtractLossless ==
  pc = "extracted" =>
    \/ extracted = <<NoMarker, original>>
    \/ /\ extracted[1] # NoMarker
       /\ original = extracted[2] \o MarkerOpen \o extracted[1] \o <<"]">>

(***************************************************************************)
(* Properties of the schema encoding layer                                 *)
(***************************************************************************)

\* The paths of the leaves of a tree, named as apply_encoding_instructions
\* names them
RECURSIVE LeafPaths(_, _)
LeafPaths(v, path) ==
  IF v.t = "dict" THEN
    UNION {LeafPaths(ValOf(v.c[i]), Append(path, str(KeyOf(v.c[i])))) : i \in 1..Len(v.c)}
  ELSE IF v.t = "list" THEN
    UNION {LeafPaths(v.c[i], Append(path, NatToStr(i - 1))) : i \in 1..Len(v.c)}
  ELSE {path}

\* The encoding of a text under a directive, as stated: the text without its
\* trailing marker, in lower or else upper case if the flag is set, then the
\* marker of that content appended if the checksum flag is set, then the
\* parity suffix of what stands there if the parity flag is set.
StatedEncoding(x, d) ==
  LET base == extract_crc32(x)[2]
      cased == IF Flag(d, LOWERCASE) THEN lower(base)
               ELSE IF Flag(d, UPPERCASE) THEN upper(base)
               ELSE base
      summed == IF Flag(d, CRC32)
                THEN cased \o MarkerOpen \o calculate_crc32(cased) \o <<"]">>
                ELSE cased
  IN IF Flag(d, PARITY)
     THEN summed \o ParityOpen \o NatToStr(_calculate_parity(summed)) \o <<"]">>
     ELSE summed

\* C20: apply gives every string leaf whose path has a directive the stated
\* encoding of its value, and returns the leaves without a directive and the
\* leaves that are not strings unchanged.
C20_ApplyComputesStatedEncoding ==
  pc = "applied" =>
    /\ LeafPaths(applied, <<>>) = LeafPaths(instance, <<>>)
    /\ \A P \in LeafPaths(instance, <<>>) :
         LET leaf == NodeAt(instance, P)
             d == _get_encoding_instructions(schema, P)
         IN IF leaf.t = "str" /\ Truthy(d)
            THEN NodeAt(applied, P) = VStr(StatedEncoding(leaf.s, d))
            ELSE NodeAt(applied, P) = leaf

\* The diagnostics of the last check that name the leaf at the path P and
\* carry one of the given messages
DiagnosticsAt(P, messages) ==
  {i \in 1..Len(diagnostics) :
     diagnostics[i].path = path_str(P) /\ diagnostics[i].message \in messages}

ParityMessages == {"Parity check failed", "Invalid parity format", "Missing parity check"}

\* The text ends with "[parity:0]" or "[parity:1]", and the bit is the parity
\* of everything before that suffix
WellFormedParity(x) ==
  /\ Len(x) >= 10
  /\ SubSeq(x, Len(x) - 9, Len(x) - 2) = ParityOpen
  /\ x[Len(x)] = "]"
  /\ x[Len(x) - 1] \in {"0", "1"}
  /\ x[Len(x) - 1] = NatToStr(_calculate_parity(SubSeq(x, 1, Len(x) - 10)))

\* C21: for every string leaf whose directive sets parity, the check reports
\* no parity error exactly if the value ends with a suffix "[parity:0]" or
\* "[parity:1]" whose bit is the parity of everything before it; a missing
\* suffix, a malformed one and a wrong bit are reported.
C21_ParityCheck ==
  (pc = "diagnosed" /\ applications = 0) =>
    \A P \in LeafPaths(instance, <<>>) :
      (NodeAt(instance, P).t = "str"
         /\ Flag(_get_encoding_instructions(schema, P), PARITY))
        => (DiagnosticsAt(P, ParityMessages) = {} <=> WellFormedParity(NodeAt(instance, P).s))

\* The text without its parity suffix "[parity:0]" or "[parity:1]", if it
\* ends with one
WithoutParitySuffix(x) ==
  IF /\ Len(x) >= 10
     /\ SubSeq(x, Len(x) - 9, Len(x) - 2) = ParityOpen
     /\ x[Len(x)] = "]"
     /\ x[Len(x) - 1] \in {"0", "1"}
  THEN SubSeq(x, 1, Len(x) - 10)
  ELSE x

\* The text carries a marker, at its end or before its parity suffix, that is
\* not the checksum of the content preceding the marker
CarriesWrongMarker(x) ==
  LET y == WithoutParitySuffix(x) IN
  \E i \in 1..Len(y) :
    /\ Len(y) - i >= 8
    /\ SubSeq(y, i, i + 6) = MarkerOpen
    /\ y[Len(y)] = "]"
    /\ AllIn(SubSeq(y, i + 7, Len(y) - 1), MarkerChars)
    /\ PadTo4(SubSeq(y, i + 7, Len(y) - 1)) # PadTo4(calculate_crc32(SubSeq(y, 1, i - 1)))

\* C22: for every string leaf whose directive sets the checksum flag, the
\* check reports a checksum error whenever the value carries a marker that
\* does not match the content before it, also when a parity suffix follows
\* the marker, and reports none when the value carries no marker at all.
C22_ChecksumCheck ==
  (pc = "diagnosed" /\ applications = 0) =>
    \A P \in LeafPaths(instance, <<>>) :
      (NodeAt(instance, P).t = "str"
         /\ Flag(_get_encoding_instructions(schema, P), CRC32))
        => /\ CarriesWrongMarker(NodeAt(instance, P).s)
                => DiagnosticsAt(P, {"CRC32 validation failed"}) # {}
           /\ ~HoldsMarker(NodeAt(instance, P).s)
                => DiagnosticsAt(P, {"CRC32 validation failed"}) = {}

\* The directive of a data path, the schema walked in lockstep with the
\* data: the schema of a mapping's key is properties[key], the schema of an
\* element of a sequence is items; VNull when the walk finds none.
RECURSIVE LockstepDirective(_, _, _)
LockstepDirective(sch, v, path) ==
  IF path = <<>>
  THEN (IF HasKey(sch, X_ENCODING) THEN Get(sch, X_ENCODING) ELSE VNull)
  ELSE IF v.t = "dict"
  THEN (IF HasKey(sch, PROPERTIES) /\ HasKey(Get(sch, PROPERTIES), path[1])
        THEN LockstepDirective(Get(Get(sch, PROPERTIES), path[1]),
                               NodeAt(v, <<path[1]>>), Tail(path))
        ELSE VNull)
  ELSE (IF HasKey(sch, ITEMS)
        THEN LockstepDirective(Get(sch, ITEMS), NodeAt(v, <<path[1]>>), Tail(path))
        ELSE VNull)

\* C23: apply and check take for each data path the directive found by
\* walking properties for mapping keys and items for sequence elements: a
\* directive on an array's items node, or on a property of the items schema,
\* is applied to and checked on the leaf of every element of the sequence.
C23_LockstepResolution ==
  /\ (pc = "applied" /\ applications = 1) =>
       \A P \in LeafPaths(instance, <<>>) :
         LET d == LockstepDirective(schema, instance, P) IN
         NodeAt(applied, P) =
           IF Truthy(d) THEN _apply_encoding_instruction(NodeAt(instance, P), d, P)
           ELSE NodeAt(instance, P)
  /\ (pc = "diagnosed" /\ applications = 0) =>
       \A P \in LeafPaths(instance, <<>>) :
         LET d == LockstepDirective(schema, instance, P) IN
         (DiagnosticsAt(P, ParityMessages \cup {"CRC32 validation failed"}) = {})
           <=> (LeafErrors(NodeAt(instance, P), d, P) = <<>>)

\* C29: apply is idempotent: after any number of successive applications the
\* tree is the one that the first application returned.
C29_ApplyIdempotent ==
  (pc = "applied" /\ applications >= 1) =>
    applied = apply_encoding_instructions(instance, schema, <<>>)

\* C30: apply and check agree: the check of the tree that apply returned
\* reports nothing, whatever the text of a field was.
C30_CheckAcceptsApplied ==
  (pc = "diagnosed" /\ applications = 1) => diagnostics = <<>>

\* a text that holds fragments of markers was encoded under the checksum and
\* the parity flag, and the returned tree was checked
C30_Witness ==
  /\ pc = "diagnosed" /\ applications = 1
  /\ \E P \in LeafPaths(instance, <<>>) :
       /\ NodeAt(instance, P).t = "str"
       /\ HasSub(NodeAt(instance, P).s, ParityOpen)
       /\ Flag(_get_encoding_instructions(schema, P), PARITY)
       /\ Flag(_get_encoding_instructions(schema, P), CRC32)
       /\ NodeAt(applied, P) # NodeAt(instance, P)
  /\ diagnostics = <<>>

(***************************************************************************)
(* Purity of the core operations                                           *)
(***************************************************************************)

\* A call leaves the arguments of the run as they are: the tree and the
\* comments given to the synthesizer, the schema and the data given to apply
\* and check, the value given to the encoder.
ArgumentsKept ==
  /\ pc = "converted" => tree' = tree /\ comments' = comments /\ options' = options
  /\ pc = "applied" => schema' = schema /\ instance' = instance
  /\ pc = "encoded" => data' = data
  /\ previous' \in {previous, diagnostics}

\* The tree that the last check was called on
CheckedTree == IF applications = 0 THEN instance ELSE applied

IsIdentifier(k) == k # <<>> /\ \A i \in 1..Len(k) : IdentChar(k[i])

\* The key as the quoting rule has it emitted.
StatedKey(k) == IF IsIdentifier(k) THEN k ELSE InDoubleQuotes(k)

\* C25: the text of a serialized mapping opens with its least key, emitted
\* bare exactly if the key is a non-empty text of ASCII letters, digits and
\* underscores, and otherwise in double quotes, escaped as text values are.
C25_KeyQuoting ==
  (pc = "encoded" /\ data.t = "dict" /\ data.c # <<>> /\ ~Raised(yaml_str)) =>
    LET k == KeyOf(sorted_items(data.c)[1]).s
    IN /\ startswith(yaml_str, StatedKey(k) \o <<":">>)
       /\ (yaml_str[1] # "\"") <=> IsIdentifier(k)

\* The places of the entries of the non-empty collections of data in the text
\* to_deterministic_yaml(data, indent), which stands at position `at` of the
\* whole output: a line of a sequence is indent_str, "- " and the item (lines
\* 250-253), a line of a mapping is indent_str, the key, ":" and the value
\* (lines 272-282); the lines are joined by newlines.  Each collection gives
\* its nesting depth and the positions at which its entries start.
RECURSIVE EntryPlaces(_, _, _)
EntryPlaces(v, indent, at) ==
  IF v.t \notin {"list", "dict"} \/ v.c = <<>> THEN {}
  ELSE
    LET es == IF v.t = "list" THEN v.c ELSE sorted_items(v.c)
        child(i) == IF v.t = "list" THEN es[i] ELSE ValOf(es[i])
        opener(i) ==
          IF v.t = "list" THEN <<"-", " ">>
          ELSE IF child(i).t \in {"list", "dict"} /\ child(i).c # <<>>
          THEN key_str(KeyOf(es[i])) \o <<":", "\n">>
          ELSE key_str(KeyOf(es[i])) \o <<":", " ">>
        lines == [i \in 1..Len(es) |->
                    indent_str(indent) \o opener(i) \o to_deterministic_yaml(child(i), indent + 1)]
        line_start(i) ==
          IF i = 1 THEN at ELSE at + Len(join(<<"\n">>, SubSeq(lines, 1, i - 1))) + 1
    IN {[depth |-> indent, starts |-> [i \in 1..Len(es) |-> line_start(i) + 2 * indent]]}
         \cup UNION {EntryPlaces(child(i), indent + 1, line_start(i) + 2 * indent + Len(opener(i))) :
                       i \in 1..Len(es)}

\* The column, counted from 0, of position p of a text.
Column(x, p) ==
  LET breaks == {q \in 1..(p - 1) : x[q] = "\n"}
  IN IF breaks = {} THEN p - 1
     ELSE p - 1 - (CHOOSE q \in breaks : \A r \in breaks : r <= q)

\* The backslashes that stand immediately before position p.
RECURSIVE BackslashesBefore(_, _)
BackslashesBefore(x, p) ==
  IF p > 1 /\ x[p - 1] = "\\" THEN 1 + BackslashesBefore(x, p - 1) ELSE 0

\* Position p of the text lies inside double quotes: an odd number of
\* unescaped quotes precedes it on its line.
InsideQuotedText(x, p) ==
  LET opens == {q \in (p - Column(x, p))..(p - 1) :
                  x[q] = "\"" /\ BackslashesBefore(x, q) % 2 = 0}
  IN Cardinality(opens) % 2 = 1

\* The bracket at position p is the token of an empty collection.
EmptyCollectionToken(x, p) ==
  /\ p < Len(x)
  /\ <<x[p], x[p + 1]>> \in {<<"[", "]">>, <<"{", "}">>}
  /\ p + 1 = Len(x) \/ x[p + 2] = "\n"

\* C26: in the text of a serialized value the entries of every non-empty
\* collection start at one column, two spaces for each level of nesting,
\* a collection that is an element of a sequence included; an opening
\* bracket or brace stands only in the token of an empty collection or inside
\* quoted text.
C26_BlockLayout ==
  (pc = "encoded" /\ ~Raised(yaml_str)) =>
    /\ \A place \in EntryPlaces(data, 0, 1) :
         \A i \in 1..Len(place.starts) : Column(yaml_str, place.starts[i]) = 2 * place.depth
    /\ \A p \in 1..Len(yaml_str) :
         yaml_str[p] \in {"[", "{"} =>
           InsideQuotedText(yaml_str, p) \/ EmptyCollectionToken(yaml_str, p)

\* C27: no other value has the text of the serialized value; values that
\* hold the same entries in another order of insertion are the same value.
C27_EncodeInjective ==
  (pc = "encoded" /\ ~Raised(yaml_str)) =>
    \A other \in EncoderInputs : other \notin Reorderings(data) => encode(other) # yaml_str

\* The lines of the block layout of a value: one for a scalar or an empty
\* collection, one for each of those under a sequence item or a key, and one
\* more for a key that opens a non-empty collection.
RECURSIVE LayoutLines(_)
LayoutLines(v) ==
  IF v.t \notin {"list", "dict"} \/ v.c = <<>> THEN 1
  ELSE
    LET child(i) == IF v.t = "list" THEN v.c[i] ELSE ValOf(v.c[i])
        opens(i) == v.t = "dict" /\ child(i).t \in {"list", "dict"} /\ child(i).c # <<>>
        RECURSIVE UpTo(_)
        UpTo(i) == IF i = 0 THEN 0
                   ELSE UpTo(i - 1) + LayoutLines(child(i)) + (IF opens(i) THEN 1 ELSE 0)
    IN UpTo(Len(v.c))

\* C28: the text of a serialized value holds no tab and no other character
\* below U+0020 except the line feeds between the lines of the layout, and no
\* line of it ends in whitespace: a control character of a text value or of a
\* key stands there only as its escape.
C28_NoRawControlCharacters ==
  (pc = "encoded" /\ ~Raised(yaml_str)) =>
    /\ \A p \in 1..Len(yaml_str) : ord(yaml_str[p]) < 32 => yaml_str[p] = "\n"
    /\ Cardinality({p \in 1..Len(yaml_str) : yaml_str[p] = "\n"}) = LayoutLines(data) - 1
    /\ \A p \in 1..Len(yaml_str) :
         isspace(yaml_str[p]) /\ yaml_str[p] # "\n" => p < Len(yaml_str) /\ yaml_str[p + 1] # "\n"
    /\ yaml_str[Len(yaml_str)] # "\n"

====
